---- MODULE Spec2Model ----
(***************************************************************************)
(* A model of Primacron (src/unnamed/part_001): the per-message validation *)
(* pipeline, the tail fan-out, the connection handler, the session         *)
(* directory kept in Redis, the HTTP routes and the network address; with  *)
(* the intercept of Scaler (src/index.js) and the listen of the Primacron  *)
(* that is built on Primus by plugins (src/unnamed/part_002).              *)
(*                                                                         *)
(* JavaScript strings that the code takes apart (addresses, node URLs,     *)
(* connection ids) are sequences of chunks, so that split('@') works on    *)
(* them; the chunk "@" is the separator character.  Keys, event names and  *)
(* error messages, which the code only builds and compares, are strings.   *)
(***************************************************************************)
EXTENDS Integers, Sequences, FiniteSets, TLC

VARIABLES
  validators,   \* listeners on 'validate::<event>', in registration order
  calls,        \* one closure per run of `validating`: its variables
  emitted,      \* log of emit('stream::..') / emit('error::..') on the node
  sent,         \* log of communicate(server, id, message) requests
  thrown,       \* log of exceptions that escaped a handler
  received,     \* log of the client messages handed to `preparser`
  pc,           \* per connection: where it is in its life
  query,        \* per connection: socket.request.query (account, session)
  connections,  \* primus.connections: ids of the attached sparks
  sockets,      \* primacron.sockets: session id -> spark id
  sockettail,   \* per connection: socket.tail, the own property set at bootstrap
  sparktail,    \* Spark.prototype.tail, the array every spark reads
  redis,        \* the directory: string keys and sets
  redisQ,       \* commands sent to Redis whose reply is pending, in order
  replies,      \* log of what the callbacks of find received
  str,          \* SpecFind: the stored value under test and what find made of it
  http,         \* requests of communicate whose response is pending
  results,      \* log of what the callbacks given to forward and pipe received
  responses,    \* log of the broadcast requests handled and how each was answered
  written,      \* log of what sparks wrote to their client or emitted as 'primacron'
  generator,    \* primacron.generator: the session id generator in use
  booted,       \* per connection: what the callback of initialise received
  intercepted,  \* log of the HTTP requests handed to intercept: the route and the response
  redirect,     \* primacron.redirect: where unknown requests are sent to
  clock,        \* per key of Redis: seconds to live, and seconds since its last SETEX
  network,      \* primacron.networkaddress and primacron.port
  httpServer,   \* the HTTP server: its listeners, whether it listens, the calls of listen
  ended,        \* log of the calls of end and what each returned
  primus        \* primacron.primus and primacron.primusQueue, and the calls Primus got

vars == <<validators, calls, emitted, sent, thrown, received, pc, query, connections,
          sockets, sockettail, sparktail, redis, redisQ, replies, str,
          http, results, responses, written, generator, booted,
          intercepted, redirect, clock, network, httpServer, ended, primus>>

valVars == <<validators, calls, emitted, sent, thrown, received>>
conVars == <<pc, query, connections, sockets, sockettail, sparktail>>
dirVars == <<redis, redisQ, replies>>
netVars == <<http, results, responses, written>>
bootVars == <<generator, booted>>
srvVars == <<intercepted, redirect, clock, network, httpServer, ended, primus>>

-----------------------------------------------------------------------------
(* Bounds of the model.                                                    *)

MaxValidators == 2    \* registrations of validators
MaxArity == 2         \* largest validator.length
MaxMsgs == 2          \* client messages received
MaxCompletions == 2   \* invocations of continuations by validators
MaxStrLen == 2        \* SpecFind: chunks in a node URL / a connection id
MaxFinds == 2         \* calls of find
MaxRequests == 2      \* requests on the broadcast path
MaxForwards == 2      \* calls of forward and pipe by the application
MaxTimeout == 2       \* options.timeout, in seconds
MaxIntercepts == 2    \* HTTP requests handed to intercept
MaxListens == 2       \* calls of listen
MaxEvents == 3        \* events of the HTTP server
MaxEnds == 2          \* calls of end
MaxProxies == 3       \* calls of use, library, save and transform

-----------------------------------------------------------------------------
(* JavaScript values and arrays.                                           *)

Undefined == [t |-> "undefined"]
Value(i) == [t |-> "value", v |-> i]
String(s) == [t |-> "string", v |-> s]
Function(i) == [t |-> "function", call |-> i]
Null == [t |-> "null"]
Number(n) == [t |-> "number", n |-> n]

\* arr[idx] = v on a JavaScript array: a write past the end leaves holes, a
\* write at a negative index adds a property and no element.
ArraySet(arr, idx, v) ==
  IF idx < 0 THEN arr
  ELSE [i \in 1..(IF idx + 1 > Len(arr) THEN idx + 1 ELSE Len(arr)) |->
          IF i = idx + 1 THEN v
          ELSE IF i <= Len(arr) THEN arr[i] ELSE Undefined]

\* arr.slice(0, end): a negative end counts from the end of the array.
ArraySlice(arr, end) ==
  LET stop == IF end < 0 THEN (IF Len(arr) + end < 0 THEN 0 ELSE Len(arr) + end)
              ELSE (IF end > Len(arr) THEN Len(arr) ELSE end)
  IN SubSeq(arr, 1, stop)

\* JavaScript truthiness of the values a validator hands to its continuation.
Truthy(v) == v \notin {"undefined", "null", "0", "false"}

-----------------------------------------------------------------------------
(* Strings as sequences of chunks.                                         *)

NoString == <<"(undefined)">>   \* the value of a missing array element

RECURSIVE IndexOf(_, _, _)
\* position of the first chunk c in s at or after i, 0 when there is none
IndexOf(s, c, i) ==
  IF i > Len(s) THEN 0 ELSE IF s[i] = c THEN i ELSE IndexOf(s, c, i + 1)

RECURSIVE Split(_, _)
\* s.split(c): the parts of s between every occurrence of c
Split(s, c) ==
  LET at == IndexOf(s, c, 1)
  IN IF at = 0 THEN <<s>>
     ELSE <<SubSeq(s, 1, at - 1)>> \o Split(SubSeq(s, at + 1, Len(s)), c)

\* data[i] of the array that split returned (0-based, as in the code)
Part(parts, i) == IF i + 1 <= Len(parts) THEN parts[i + 1] ELSE NoString

Range(f) == {f[i] : i \in DOMAIN f}

-----------------------------------------------------------------------------
(* Configuration of the node (the defaults of the constructor).            *)

namespace == "primacron"
networkaddress == "localhost"
broadcast == <<"/primacron/broadcast">>

\* 'http://' + [networkaddress, port].filter(Boolean).join(':'), port being null
uri == <<"http://", networkaddress>>

\* this.timeout: how long Redis keeps a session entry, in seconds
timeout == MaxTimeout

ConnIds == {<<"c1">>, <<"c2">>}     \* socket.id, which is also spark.id
Accounts == {"a1", "a2"}
Sessions == {"s1"}
NoQuery == [account |-> "(undefined)", session |-> "(undefined)"]

\* Primacron.prototype.generator yields four random strings joined by '-',
\* here any id of Sessions; a generator given to uuid yields ids of its own.
DefaultGenerator == [name |-> "generator", ids |-> Sessions]
CustomSessions == {"u1"}
CustomGenerator == [name |-> "uuid", ids |-> CustomSessions]

\* The user record of a connection.  this.id = this: the field refers to the
\* record itself, whatever id was passed; used as a property key an object
\* reads "[object Object]", which is what the field holds here.
User(account, session, id) ==
  [account |-> account, session |-> session, id |-> <<"[object Object]">>]

-----------------------------------------------------------------------------
(* Client messages as Primus hands them to the 'data' listener.            *)

Args(k) == [i \in 1..k |-> Value(i)]

Decoded ==
  {[kind |-> "primitive"],                \* a string, a number, a boolean
   [kind |-> "object"],                   \* null, an array, an object without event
   [kind |-> "eventnoargs", event |-> "foo"]}   \* {event: ..} whose args is no array
  \cup {[kind |-> "event", event |-> "foo", args |-> Args(k)] : k \in 0..MaxArity}

Raw(d) == [t |-> "raw", json |-> d]
Decode(raw) == raw.json

\* What validators hand to their continuation: (err, ok).
Outcomes ==
  {<<"undefined", "undefined">>, <<"undefined", "false">>,
   <<"Error: custom", "undefined">>, <<"0", "true">>}

-----------------------------------------------------------------------------
(* Primacron.prototype.communicate: one PUT request per call.              *)

\* A request that leaves the broadcast path out.
RequestAtRoot(server, id, message) ==
  [uri |-> server, method |-> "PUT", json |-> [id |-> id, message |-> message]]

Request(server, id, message) ==
  [uri |-> server \o broadcast, method |-> "PUT", json |-> [id |-> id, message |-> message]]

-----------------------------------------------------------------------------
(* Primacron.prototype.validate.                                           *)

\* this.on('validate::' + event, validating), callbackargument = validator.length - 1
Validate(event, length) ==
  /\ Len(validators) < MaxValidators
  /\ validators' = Append(validators, [event |-> event, callbackargument |-> length - 1])
  /\ UNCHANGED <<calls, emitted, sent, thrown, received>>
  /\ UNCHANGED <<conVars, dirVars, str>>
  /\ UNCHANGED <<netVars, bootVars>>
  /\ UNCHANGED srvVars

Listeners(event) == SelectSeq(validators, LAMBDA v : v.event = event)

\* One run of `validating` for listener v, up to validator.apply(this, data):
\* the variables of the closure that the continuation will use.
Validating(v, arguments, self, m) ==
  LET raw == arguments[Len(arguments)]
      user == arguments[Len(arguments) - 1]
      data == ArraySet(SubSeq(arguments, 1, Len(arguments) - 2),
                       v.callbackargument, Function(self))
  IN [event |-> v.event, callbackargument |-> v.callbackargument,
      raw |-> raw, user |-> user, data |-> data,
      applied |-> data,      \* the arguments the validator was applied to
      outcomes |-> <<>>,     \* what the validator handed to the continuation
      msg |-> m]

\* A continuation that looks at err alone.
RejectedErrOnly(err, ok) == Truthy(err)

\* if (err || ok === false)
Rejected(err, ok) == Truthy(err) \/ ok = "false"

\* A continuation that passes err on as it came.
ValidationErrorNoDefault(call, err) ==
  [type |-> "error::validation", err |-> err,
   context |-> [event |-> call.event, raw |-> call.raw, user |-> call.user]]

\* err = err || new Error('Failed to validate the data'), and the context
ValidationError(call, err) ==
  [type |-> "error::validation",
   err |-> IF Truthy(err) THEN err ELSE "Error: Failed to validate the data",
   context |-> [event |-> call.event, raw |-> call.raw, user |-> call.user]]

\* data = data.slice(0, callbackargument); unshift; push(raw); push(user)
Validated(call) ==
  <<String("stream::" \o call.event)>>
    \o ArraySlice(call.data, call.callbackargument) \o <<call.raw, call.user>>

\* The tail fan-out of the continuation: nothing unless user.id is the id of
\* an attached spark; otherwise one request per non-empty tailgator.
FanOut(user, raw) ==
  IF user.id \notin connections THEN <<>>
  ELSE LET gators == SelectSeq(sparktail, LAMBDA gator : gator # <<>>)
       IN [i \in 1..Len(gators) |->
             Request(Part(Split(gators[i], "@"), 0), Part(Split(gators[i], "@"), 1), raw)]

\* The continuation `callback` of call i, invoked with (err, ok).
Callback(i, err, ok) ==
  /\ i \in 1..Len(calls)
  /\ Function(i) \in Range(calls[i].applied)
  /\ Cardinality({e \in 1..Len(emitted) : emitted[e].call > 0}) < MaxCompletions
  /\ LET call == calls[i]
         done == [call EXCEPT !.outcomes = Append(@, [err |-> err, ok |-> ok])]
         nth == Len(call.outcomes) + 1
     IN IF Rejected(err, ok)
        THEN /\ emitted' = Append(emitted, [msg |-> call.msg, call |-> i]
                                             @@ ValidationError(call, err))
             /\ calls' = [calls EXCEPT ![i] = done]
             /\ sent' = sent
        ELSE LET data == Validated(call)
             IN /\ emitted' = Append(emitted,
                     [msg |-> call.msg, call |-> i, type |-> data[1].v, args |-> Tail(data)])
                /\ calls' = [calls EXCEPT ![i] = [done EXCEPT !.data = data]]
                /\ sent' = sent \o [j \in 1..Len(FanOut(call.user, call.raw)) |->
                                     [call |-> i, completion |-> nth]
                                       @@ FanOut(call.user, call.raw)[j]]
  /\ UNCHANGED <<validators, thrown, received>>
  /\ UNCHANGED <<conVars, dirVars, str>>
  /\ UNCHANGED <<netVars, bootVars>>
  /\ UNCHANGED srvVars

-----------------------------------------------------------------------------
(* The session directory in Redis.                                         *)

Key(account, session) == namespace \o "::" \o account \o "::" \o session
AllKeys == {Key(a, s) : a \in Accounts, s \in Sessions \cup CustomSessions}

\* redis.keys: the value of each string key (NoString: no such key);
\* redis.pipe: the members of the set key + '::pipe';
\* redis.last: the last command that changed each string key.
EmptyRedis ==
  [keys |-> [k \in AllKeys |-> NoString],
   pipe |-> [k \in AllKeys |-> {}],
   last |-> [k \in AllKeys |-> <<"none">>]]

\* A connect that writes the connection id before the node URL.
ConnectIdFirst(account, session, id) ==
  [cmd |-> "multi", key |-> Key(account, session), value |-> id \o <<"@">> \o uri, id |-> id]

\* Primacron.prototype.connect: MULTI SETEX key timeout value, SMEMBERS key::pipe
Connect(account, session, id) ==
  [cmd |-> "multi", key |-> Key(account, session), value |-> uri \o <<"@">> \o id, id |-> id]

\* Primacron.prototype.disconnect: DEL key
Disconnect(account, session, id) ==
  [cmd |-> "del", key |-> Key(account, session), value |-> uri \o <<"@">> \o id, id |-> id]

\* Primacron.prototype.find: GET key
Find(account, session) ==
  [cmd |-> "get", key |-> Key(account, session), value |-> NoString, id |-> NoString]

\* The callback `parse` of find: what fn receives for the stored data.
Parse(err, data) ==
  IF err # "undefined" \/ data = NoString \/ data = <<>>
  THEN [err |-> err, server |-> data, id |-> NoString]
  ELSE [err |-> "undefined", server |-> Part(Split(data, "@"), 0),
        id |-> Part(Split(data, "@"), 1)]

-----------------------------------------------------------------------------
(* Primacron.prototype.initialise: the bootstrap of a connection.          *)

\* Primacron.prototype.uuid: this.generator = generator
Uuid(g) ==
  /\ generator' = g
  /\ UNCHANGED booted
  /\ UNCHANGED <<valVars, conVars, dirVars, str, netVars>>
  /\ UNCHANGED srvVars

\* What the callback of initialise has received before any bootstrap.
NoBoot == [calls |-> 0, err |-> "undefined",
           session |-> "(undefined)", account |-> "(undefined)"]

\* A bootstrap that hands the account over as the session.
BootedAccountOnly(before, err, session, account) ==
  [calls |-> before.calls + 1, err |-> err, session |-> account, account |-> account]

\* next(err, { session: data, account: account }), which the waterfall hands to fn
Booted(before, err, session, account) ==
  [calls |-> before.calls + 1, err |-> err, session |-> session, account |-> account]

\* engine.io calls onOpen for a new socket: the work is put off to the next tick.
Initialise(c, account) ==
  /\ pc[c] = "new"
  /\ pc' = [pc EXCEPT ![c] = "tick"]
  /\ query' = [query EXCEPT ![c] = [account |-> account, session |-> "(undefined)"]]
  /\ UNCHANGED <<connections, sockets, sockettail, sparktail>>
  /\ UNCHANGED <<valVars, dirVars, str>>
  /\ UNCHANGED <<netVars, bootVars>>
  /\ UNCHANGED srvVars

\* A waterfall that hides the error of its first task.
AbortedSilently(before, err) ==
  Booted(before, "undefined", "(undefined)", "(undefined)")

\* async.waterfall: a task that reports an error ends the waterfall, the
\* tasks after it are skipped and fn receives the error alone.
Aborted(before, err) == Booted(before, err, "(undefined)", "(undefined)")

\* ticktock: the generator yields a session id, which is stored in the query,
\* and connect sends its commands; or the generator reports an error, which
\* the generator of the prototype never does.
Ticktock(c, err, session) ==
  /\ pc[c] = "tick"
  /\ IF err # "undefined"
     THEN /\ generator.name # DefaultGenerator.name
          /\ pc' = [pc EXCEPT ![c] = "aborted"]
          /\ booted' = [booted EXCEPT ![c] = Aborted(@, err)]
          /\ UNCHANGED <<query, redisQ, generator>>
     ELSE /\ session \in generator.ids
          /\ pc' = [pc EXCEPT ![c] = "connecting"]
          /\ query' = [query EXCEPT ![c].session = session]
          /\ redisQ' = Append(redisQ, Connect(query[c].account, session, c))
          /\ UNCHANGED bootVars
  /\ UNCHANGED <<connections, sockets, sockettail, sparktail, redis, replies>>
  /\ UNCHANGED <<valVars, str>>
  /\ UNCHANGED netVars
  /\ UNCHANGED srvVars

\* A write that sets no time to live.
SetNoExpiry(clk, key, seconds) ==
  [clk EXCEPT !.ttl[key] = 0, !.age[key] = 0]

\* SETEX key seconds value: the key lives for that many seconds from now on.
Setex(clk, key, seconds) ==
  [clk EXCEPT !.ttl[key] = seconds, !.age[key] = 0]

\* What node-redis hands to the callback of exec: the replies of the two
\* commands, where a refused SETEX is a reply that holds 'ERR', or an error
\* of EXEC itself and then no replies at all.
SetxArguments ==
  {[err |-> "undefined", result |-> "OK"],
   [err |-> "undefined", result |-> "ERR"],
   [err |-> "Error: EXEC", result |-> "(undefined)"]}

\* The reply to MULTI/EXEC: setx, then the callback given by initialise.
\* replies.some(..) on no replies is a TypeError: neither fn nor emit is
\* reached, the waterfall of the bootstrap never goes on.
Setx(err, result) ==
  /\ redisQ # <<>> /\ Head(redisQ).cmd = "multi"
  /\ LET q == Head(redisQ)
         failed == err # "undefined" \/ result = "ERR"
         error == IF err # "undefined" THEN err
                  ELSE IF result = "ERR" THEN "Error: ERR" ELSE "undefined"
         members == redis.pipe[q.key]
     IN /\ redisQ' = Tail(redisQ)
        /\ redis' = IF failed THEN redis
                    ELSE [redis EXCEPT !.keys[q.key] = q.value,
                                       !.last[q.key] = <<"connect">> \o q.id]
        /\ replies' = replies
        /\ clock' = IF failed THEN clock ELSE Setex(clock, q.key, timeout)
        /\ IF result = "(undefined)"
           THEN /\ thrown' = Append(thrown, [msg |-> 0, error |-> "TypeError"])
                /\ pc' = [pc EXCEPT ![q.id] = "stalled"]
                /\ UNCHANGED <<emitted, sockettail, booted>>
           ELSE /\ emitted' = IF failed
                      THEN Append(emitted, [msg |-> 0, call |-> 0, type |-> "error::connect", err |-> error,
                                            context |-> [key |-> q.key, value |-> q.value]])
                      ELSE emitted
                /\ sockettail' = IF failed THEN sockettail
                                 ELSE [sockettail EXCEPT ![q.id] = members]
                /\ pc' = [pc EXCEPT ![q.id] = IF failed THEN "refused" ELSE "handshaken"]
                /\ booted' = [booted EXCEPT ![q.id] =
                                Booted(@, error, query[q.id].session, query[q.id].account)]
                /\ UNCHANGED thrown
  /\ UNCHANGED <<query, connections, sockets, sparktail>>
  /\ UNCHANGED <<validators, calls, sent, received, str>>
  /\ UNCHANGED <<netVars, generator>>
  /\ UNCHANGED <<intercepted, redirect, network, httpServer, ended, primus>>

-----------------------------------------------------------------------------
(* Primacron.prototype.connection: the handler of a new spark.             *)

\* Primus attaches the spark and emits 'connection'.
Connection(c) ==
  /\ pc[c] = "handshaken"
  /\ pc' = [pc EXCEPT ![c] = "open"]
  /\ connections' = connections \cup {c}
  /\ sockets' = [sockets EXCEPT ![query[c].session] = c]
  /\ UNCHANGED <<query, sockettail, sparktail>>
  /\ UNCHANGED <<valVars, dirVars, str>>
  /\ UNCHANGED <<netVars, bootVars>>
  /\ UNCHANGED srvVars

\* The listener `preparser` of the spark's 'data' event.
Data(c, d) ==
  /\ pc[c] = "open"
  /\ Len(received) < MaxMsgs
  /\ LET m == Len(received) + 1
         raw == Raw(d)
         user == User(query[c].account, query[c].session, c)
         channel == IF d.kind \in {"event", "eventnoargs"} THEN d.event ELSE "message"
     IN
     /\ received' = Append(received, [conn |-> c, data |-> d])
     /\ IF d.kind = "primitive"
        THEN /\ emitted' = Append(emitted,
                  [msg |-> m, call |-> 0, type |-> "error::invalid",
                   err |-> "Error: Not an object",
                   context |-> [user |-> user, raw |-> raw]])
             /\ UNCHANGED <<calls, thrown>>
        ELSE IF d.kind = "eventnoargs"
        THEN \* data.args.unshift: TypeError, nothing was emitted yet
             /\ thrown' = Append(thrown, [msg |-> m, error |-> "TypeError"])
             /\ UNCHANGED <<calls, emitted>>
        ELSE LET arguments == IF d.kind = "event" THEN d.args \o <<user, raw>>
                              ELSE <<[t |-> "object"], user, raw>>
                 ls == Listeners(channel)
             IN IF ls = <<>>
                THEN /\ emitted' = Append(emitted,
                          [msg |-> m, call |-> 0, type |-> "error::validation",
                           err |-> "Error: Validator missing",
                           context |-> [event |-> IF d.kind = "event" THEN d.event ELSE "data",
                                        user |-> user, raw |-> raw]])
                     /\ UNCHANGED <<calls, thrown>>
                ELSE /\ calls' = calls \o [j \in 1..Len(ls) |->
                                    Validating(ls[j], arguments, Len(calls) + j, m)]
                     /\ UNCHANGED <<emitted, thrown>>
  /\ UNCHANGED <<validators, sent>>
  /\ UNCHANGED <<conVars, dirVars, str>>
  /\ UNCHANGED <<netVars, bootVars>>
  /\ UNCHANGED srvVars

\* A follower that is pushed whether or not the tail has it.
PushAlways(tail, member) == Append(tail, member)

\* follower: if (~spark.tail.indexOf(member)) return; spark.tail.push(member)
Push(tail, member) == IF member \in Range(tail) THEN tail ELSE Append(tail, member)

\* The listener of 'primacron::tail': push the members that are not there yet.
RECURSIVE PushAll(_, _)
PushAll(tail, members) ==
  IF members = <<>> THEN tail
  ELSE PushAll(Push(tail, Head(members)), Tail(members))

TailEvent(c, members) ==
  /\ pc[c] = "open"
  /\ sparktail' = PushAll(sparktail, members)
  /\ UNCHANGED <<pc, query, connections, sockets, sockettail>>
  /\ UNCHANGED <<valVars, dirVars, str>>
  /\ UNCHANGED <<netVars, bootVars>>
  /\ UNCHANGED srvVars

\* An end that leaves the spark in primacron.sockets.
EndKeepsSocket(c) ==
  /\ pc[c] = "open"
  /\ pc' = [pc EXCEPT ![c] = "closed"]
  /\ redisQ' = Append(redisQ, Disconnect(query[c].account, query[c].session, c))
  /\ connections' = connections \ {c}
  /\ UNCHANGED <<query, sockets, sockettail, sparktail, redis, replies>>
  /\ UNCHANGED <<valVars, str>>
  /\ UNCHANGED <<netVars, bootVars>>
  /\ UNCHANGED srvVars

\* The listener `disconnect` of the spark's 'end' event; Primus detaches the spark.
End(c) ==
  /\ pc[c] = "open"
  /\ pc' = [pc EXCEPT ![c] = "closed"]
  /\ redisQ' = Append(redisQ, Disconnect(query[c].account, query[c].session, c))
  /\ sockets' = [sockets EXCEPT ![query[c].session] = NoString]
  /\ connections' = connections \ {c}
  /\ UNCHANGED <<query, sockettail, sparktail, redis, replies>>
  /\ UNCHANGED <<valVars, str>>
  /\ UNCHANGED <<netVars, bootVars>>
  /\ UNCHANGED srvVars

\* A DEL that removes the key only while it holds the address given.
DelOwn(keys, key, value) ==
  IF keys[key] = value THEN [keys EXCEPT ![key] = NoString] ELSE keys

\* this.redis.del(key, ..): the key is removed, whatever it holds
DelKey(keys, key, value) == [keys EXCEPT ![key] = NoString]

\* The reply to DEL: the callback `del`.
Del(failed) ==
  /\ redisQ # <<>> /\ Head(redisQ).cmd = "del"
  /\ LET q == Head(redisQ)
         err == IF failed THEN "Error: ERR" ELSE "undefined"
     IN /\ redisQ' = Tail(redisQ)
        /\ redis' = IF failed THEN redis
                    ELSE [redis EXCEPT !.keys = DelKey(@, q.key, q.value),
                                       !.last[q.key] = <<"disconnect">> \o q.id]
        /\ clock' = IF failed THEN clock ELSE [clock EXCEPT !.ttl[q.key] = 0]
        /\ replies' = replies
        /\ emitted' = IF failed
                      THEN Append(emitted, [msg |-> 0, call |-> 0, type |-> "error::disconnect", err |-> err,
                                            context |-> [key |-> q.key, value |-> q.value]])
                      ELSE emitted
        /\ pc' = [pc EXCEPT ![q.id] = IF failed THEN "closed" ELSE "unregistered"]
  /\ UNCHANGED <<query, connections, sockets, sockettail, sparktail>>
  /\ UNCHANGED <<validators, calls, sent, thrown, received, str>>
  /\ UNCHANGED <<netVars, bootVars>>
  /\ UNCHANGED <<intercepted, redirect, network, httpServer, ended, primus>>

-----------------------------------------------------------------------------
(* Primacron.prototype.incoming: a PUT of another node on the broadcast    *)
(* path, once its body has been read.                                      *)

\* The messages of an envelope: a string, arrays of addresses, other values.
Messages ==
  {String("hello"), [t |-> "object"], [t |-> "null"]}
    \cup {[t |-> "array", members |-> members] :
            members \in {<<<<>>, <<"http://", "peer", "@", "p1">>>>,
                         <<<<"http://", "peer", "@", "p2">>>>}}

\* The bodies: what primus.decoder makes of the buffer.
Bodies ==
  {[kind |-> "broken"],       \* the decoder reports an error
   [kind |-> "primitive"],    \* a string, a number, a boolean
   [kind |-> "array"],
   [kind |-> "null"],
   [kind |-> "object", keys |-> {}],
   [kind |-> "object", keys |-> {"id"}],
   [kind |-> "object", keys |-> {"message"}]}
  \cup {[kind |-> "object", keys |-> {"id", "message"}, id |-> id, message |-> message] :
          id \in ConnIds \cup {<<"zz">>}, message \in Messages}

\* A switch that has no case for arrays.
MessageTypeNoArray(message) ==
  IF message.t = "string" THEN "String" ELSE "Other"

\* toString.call(data.message).slice(8, -1), as far as the switch tells apart
MessageType(message) ==
  IF message.t = "string" THEN "String"
  ELSE IF message.t = "array" THEN "Array" ELSE "Other"

\* The checks of the callback given to the decoder, in their order: the
\* response, or the TypeError of `'message' in data` when data is null.
Checked(body, attached) ==
  IF body.kind = "broken" THEN "broken"
  ELSE IF body.kind \in {"primitive", "array"} THEN "invalid"
  ELSE IF body.kind = "null" THEN "TypeError"
  ELSE IF body.keys # {"id", "message"} THEN "invalid"
  ELSE IF body.id \notin attached THEN "unknown socket"
  ELSE "sending"

\* The response of Node for a request: nothing set, nothing sent.
NoRes == [headers |-> {}, statusCode |-> 200, body |-> Undefined, ended |-> FALSE]

\* res.setHeader(name, value)
SetHeader(res, name, value) ==
  [res EXCEPT !.headers = {h \in @ : h.name # name} \cup {[name |-> name, value |-> value]}]

\* Primacron.prototype.end: the status of the precompiled responses.
Status(type) ==
  IF type = "sending" THEN 200 ELSE IF type = "unknown socket" THEN 404 ELSE 400

\* The types of the precompiled responses.
Types == {"broken", "bad request", "invalid", "unknown socket", "sending"}

\* compiled[type], compiled being the function Primacron.prototype.end: a
\* precompiled response, or another property of the function object: its
\* name, its length, a method it inherits; undefined for any other string.
Compiled(type) ==
  IF type \in Types THEN [t |-> "buffer", json |-> [status |-> Status(type), type |-> type]]
  ELSE IF type = "name" THEN String("end")
  ELSE IF type = "length" THEN Number(2)
  ELSE IF type = "call" THEN Function(0)
  ELSE Undefined

\* msg = compiled[type] || compiled['bad request']
Msg(type) ==
  IF Compiled(type).t # "undefined" THEN Compiled(type) ELSE Compiled("bad request")

\* Whether end(type, res) gets as far as res.end(msg): msg.json.status of
\* a msg without json is a TypeError.
Answers(type) == Msg(type).t = "buffer"

\* res after end(type, res) for a msg that has its document
Ended(type, res) ==
  [SetHeader(res, "Content-Type", <<"application/json">>)
     EXCEPT !.statusCode = Msg(type).json.status, !.body = Msg(type), !.ended = TRUE]

\* An error::invalid that leaves the raw body out of its context.
ErrorInvalidNoRaw(n, err, buff) ==
  [msg |-> 0, call |-> 0, type |-> "error::invalid", err |-> err,
   context |-> [raw |-> [kind |-> "(undefined)"], request |-> n]]

\* primacron.emit('error::invalid', err, { raw: buff, request: req })
ErrorInvalid(n, err, buff) ==
  [msg |-> 0, call |-> 0, type |-> "error::invalid", err |-> err,
   context |-> [raw |-> buff, request |-> n]]

\* The tail list that spark c reads: no spark has a tail of its own, each
\* reads the array of the prototype.
TailOf(c) == sparktail

\* The requests that intercept has handed to incoming, in their order, as
\* positions of the log.
HandedOver ==
  LET RECURSIVE From(_)
      From(i) == IF i > Len(intercepted) THEN <<>>
                 ELSE IF intercepted[i].route = "incoming" THEN <<i>> \o From(i + 1)
                 ELSE From(i + 1)
  IN From(1)

\* The listener `end` of the request.  caught: the decoder runs its callback
\* inside its try block, so an exception of the callback has it call the
\* callback again with that exception; otherwise the exception escapes.
Incoming(body, caught) ==
  /\ Len(responses) < MaxRequests
  /\ Len(responses) < Len(HandedOver)
  /\ LET n == Len(responses) + 1
         type == Checked(body, connections)
         answer == IF type = "TypeError"
                   THEN (IF caught THEN <<[type |-> "broken", status |-> Status("broken")]>>
                         ELSE <<>>)
                   ELSE <<[type |-> type, status |-> Status(type)]>>
     IN /\ responses' = Append(responses,
                              [body |-> body, attached |-> connections, answers |-> answer])
        \* primacron.end(type, res) on the response of this request
        /\ intercepted' = IF answer = <<>> THEN intercepted
                          ELSE [intercepted EXCEPT ![HandedOver[n]].res =
                                  Ended(answer[1].type, @)]
        /\ emitted' =
             IF type = "broken" THEN Append(emitted, ErrorInvalid(n, "SyntaxError", body))
             ELSE IF type = "invalid"
             THEN Append(emitted, ErrorInvalid(n, "Error: Invalid packet received", body))
             ELSE IF type = "TypeError" /\ caught
             THEN Append(emitted, ErrorInvalid(n, "TypeError", body))
             ELSE emitted
        /\ thrown' = IF type = "TypeError" /\ ~caught
                     THEN Append(thrown, [msg |-> 0, request |-> n, error |-> "TypeError"])
                     ELSE thrown
        \* 'primacron::pipe': spark.write(data); 'primacron': no listener of ours
        /\ written' =
             IF type = "sending" /\ MessageType(body.message) = "String"
             THEN Append(written, [conn |-> body.id, op |-> "write", data |-> body.message])
             ELSE IF type = "sending" /\ MessageType(body.message) = "Other"
             THEN Append(written, [conn |-> body.id, op |-> "primacron", data |-> body.message])
             ELSE written
        \* 'primacron::tail'
        /\ sparktail' =
             IF type = "sending" /\ MessageType(body.message) = "Array"
             THEN PushAll(sparktail, body.message.members)
             ELSE sparktail
  /\ UNCHANGED <<validators, calls, sent, received>>
  /\ UNCHANGED <<pc, query, connections, sockets, sockettail>>
  /\ UNCHANGED <<dirVars, str, http, results, bootVars>>
  /\ UNCHANGED <<redirect, clock, network, httpServer, ended, primus>>

-----------------------------------------------------------------------------------------------------------------------------------------------------
(* intercept: the listener of the requests of the HTTP server.             *)

endpoint == <<"/stream/">>
version == <<"version">>

\* What intercept looks at in a request: req.method, which a request may
\* lack, req.uri.pathname and whether the query has an account.
Methods == {"PUT", "put", "Put", "GET", "(undefined)"}
Pathnames == {endpoint, broadcast, <<"/cows">>}
Requests == [method : Methods, pathname : Pathnames, account : BOOLEAN]

\* The configured redirects: none (false), or the root domain of the service.
Redirects == {"(false)", "http://google.com"}

\* A comparison of the method as it was sent.
SameCase(method) == IF method = "(undefined)" THEN "" ELSE method

\* (req.method || '').toLowerCase()
ToLowerCase(method) ==
  IF method = "(undefined)" THEN ""
  ELSE IF method \in {"PUT", "put", "Put"} THEN "put"
  ELSE "get"

\* The identifying header as well.
BadRequestPowered(res) ==
  Ended("bad request", SetHeader(res, "X-Powered-By", <<"Primacron/v">> \o version))

\* this.end('bad request', res)
BadRequest(res) == Ended("bad request", res)

\* The part of intercept that Scaler and Primacron share: a PUT on the
\* broadcast path gets the identifying header and goes to incoming, which
\* answers once the body is read; anything else is redirected or refused.
Otherwise(by, req) ==
  IF ToLowerCase(req.method) = "put" /\ req.pathname = broadcast
  THEN [route |-> "incoming",
        res |-> SetHeader(NoRes, "X-Powered-By", <<by, "/v">> \o version)]
  ELSE IF redirect # "(false)"
  THEN [route |-> "redirect",
        res |-> [SetHeader(NoRes, "Location", <<redirect>>)
                   EXCEPT !.statusCode = 301, !.body = String(""), !.ended = TRUE]]
  ELSE [route |-> "bad request", res |-> BadRequest(NoRes)]

\* Scaler.prototype.intercept: the listener of 'request' (websocket false)
\* and of 'upgrade' (websocket true).
ScalerIntercept(websocket, req) ==
  /\ Len(intercepted) < MaxIntercepts
  /\ intercepted' = Append(intercepted,
       [by |-> "Scaler", websocket |-> websocket, req |-> req] @@
       (IF req.pathname = endpoint /\ req.account
        THEN [route |-> "transport", res |-> NoRes]     \* the engine goes on
        ELSE IF websocket
        THEN [route |-> "closed", res |-> [NoRes EXCEPT !.ended = TRUE]]
        ELSE Otherwise("Scaler", req)))
  /\ UNCHANGED <<valVars, conVars, dirVars, str, netVars, bootVars>>
  /\ UNCHANGED <<redirect, clock, network, httpServer, ended, primus>>

\* Primacron.prototype.intercept: the listener of the requests that Primus
\* leaves alone, those on other paths than its endpoint.
Intercept(req) ==
  /\ Len(intercepted) < MaxIntercepts
  /\ req.pathname # endpoint
  /\ intercepted' = Append(intercepted,
       [by |-> "Primacron", websocket |-> FALSE, req |-> req] @@
       Otherwise("Primacron", req))
  /\ UNCHANGED <<valVars, conVars, dirVars, str, netVars, bootVars>>
  /\ UNCHANGED <<redirect, clock, network, httpServer, ended, primus>>

-----
(* Primacron.prototype.forward, communicate and pipe.                      *)

NoStatus == 0    \* (response || {}).statusCode of a request that got no response

\* What `requested` can receive: a response of the peer, or an error of the
\* transport and no response.
Responses ==
  {[err |-> "undefined", status |-> 200, body |-> "sending"],
   [err |-> "undefined", status |-> 404, body |-> "unknown socket"],
   [err |-> "undefined", status |-> 400, body |-> "invalid"],
   [err |-> "Error: ECONNREFUSED", status |-> NoStatus, body |-> "(undefined)"]}
NoResponse == [err |-> "(none)", status |-> NoStatus, body |-> "(none)"]

\* A call of the application: its arguments and what its callback received.
Called(op, c, account, session, message) ==
  [op |-> op, conn |-> c, account |-> account, session |-> session,
   message |-> message, fn |-> <<>>]

\* fn(err) of an error that is not made by `requested`
Failed(err) == [err |-> err, status |-> NoStatus, body |-> "(undefined)",
                response |-> NoResponse]

\* communicate(server, id, message, fn) of call k: the request it hands to
\* `request`, kept with its arguments.
Communicate(k, server, id, message) ==
  [caller |-> k, args |-> [server |-> server, id |-> id, message |-> message]]
    @@ Request(server, id, message)

\* The callback `requested`: what fn receives for a response.
\* if (err || status !== 200) { err = err || new Error(..); err.status; err.body }
Requested(response) ==
  IF response.err # "undefined" \/ response.status # 200
  THEN [err |-> IF response.err # "undefined" THEN response.err
                ELSE "Error: Invalid status code",
        status |-> response.status, body |-> response.body, response |-> response]
  ELSE [err |-> "undefined", status |-> NoStatus, body |-> response.body,
        response |-> response]

\* primacron.forward(account, session, message, fn): find, with `found`
Forward(account, session, message) ==
  /\ Len(results) < MaxForwards
  /\ results' = Append(results, Called("forward", NoString, account, session, message))
  /\ redisQ' = Append(redisQ, [call |-> Len(results) + 1, session |-> session,
                                message |-> message] @@ Find(account, session))
  /\ UNCHANGED <<redis, replies, http, responses, written>>
  /\ UNCHANGED <<valVars, conVars, str, bootVars>>
  /\ UNCHANGED srvVars

\* A found that looks at the error alone.
UnknownOnError(found) == found.err # "undefined"

\* if (err || !server)
Unknown(found) == found.err # "undefined" \/ found.server \in {NoString, <<>>}

\* The reply to the GET of forward: parse, then found.
\* if (err || !server) return fn(err || new Error('Unknown session id ' + session))
Found(failed) ==
  /\ redisQ # <<>> /\ Head(redisQ).cmd = "get"
  /\ LET q == Head(redisQ)
         err == IF failed THEN "Error: ERR" ELSE "undefined"
         data == IF failed THEN NoString ELSE redis.keys[q.key]
         found == Parse(err, data)
     IN /\ redisQ' = Tail(redisQ)
        \* kept for the properties: what the lookup of the call gave
        /\ replies' = Append(replies, [op |-> "found", call |-> q.call, key |-> q.key,
                                       failed |-> failed] @@ found)
        /\ IF Unknown(found)
           THEN /\ results' = [results EXCEPT ![q.call].fn = Append(@,
                       Failed(IF found.err # "undefined" THEN found.err
                              ELSE "Error: Unknown session id " \o q.session))]
                /\ UNCHANGED <<http, sent>>
           ELSE /\ http' = Append(http, Communicate(q.call, found.server, found.id, q.message))
                /\ sent' = Append(sent, Communicate(q.call, found.server, found.id, q.message))
                /\ UNCHANGED results
  /\ UNCHANGED <<redis, responses, written>>
  /\ UNCHANGED <<validators, calls, emitted, thrown, received>>
  /\ UNCHANGED <<conVars, str, bootVars>>
  /\ UNCHANGED srvVars

\* The response to request i of those in flight: requested, then fn.
Response(i, response) ==
  /\ i \in 1..Len(http)
  /\ http' = [j \in 1..(Len(http) - 1) |-> IF j < i THEN http[j] ELSE http[j + 1]]
  /\ results' = [results EXCEPT ![http[i].caller].fn = Append(@, Requested(response))]
  /\ UNCHANGED <<responses, written>>
  /\ UNCHANGED <<valVars, conVars, dirVars, str, bootVars>>
  /\ UNCHANGED srvVars

\* A pipe that lets a socket follow any account.
MayFollowAnyone(c, account) == TRUE

\* account !== socket.query.account
MayFollow(c, account) == account = query[c].account

\* primacron.pipe(socket, account, session, fn)
Pipe(c, account, session) ==
  /\ Len(results) < MaxForwards
  /\ pc[c] = "open"
  /\ IF ~MayFollow(c, account)
     THEN /\ results' = Append(results,
                 [Called("pipe", c, account, session, [t |-> "none"])
                    EXCEPT !.fn = <<Failed("Error: Cannot follow other accounts")>>])
          /\ UNCHANGED redisQ
     ELSE /\ results' = Append(results, Called("pipe", c, account, session, [t |-> "none"]))
          /\ redisQ' = Append(redisQ,
                 [cmd |-> "sadd", key |-> Key(account, session), value |-> uri \o <<"@">> \o c,
                  id |-> c, call |-> Len(results) + 1,
                  account |-> account, session |-> session])
  /\ UNCHANGED <<redis, replies, http, responses, written>>
  /\ UNCHANGED <<valVars, conVars, str, bootVars>>
  /\ UNCHANGED srvVars

\* The reply to SADD: follow, which forwards [value] to the followed session.
Follow(failed) ==
  /\ redisQ # <<>> /\ Head(redisQ).cmd = "sadd"
  /\ LET q == Head(redisQ)
     IN IF failed
        THEN /\ redisQ' = Tail(redisQ)
             /\ results' = [results EXCEPT ![q.call].fn = Append(@, Failed("Error: ERR"))]
             /\ UNCHANGED redis
        ELSE /\ redis' = [redis EXCEPT !.pipe[q.key] = @ \cup {q.value}]
             /\ redisQ' = Append(Tail(redisQ),
                    [call |-> q.call, session |-> q.session,
                     message |-> [t |-> "array", members |-> <<q.value>>]]
                      @@ Find(q.account, q.session))
             /\ UNCHANGED results
  /\ UNCHANGED <<replies, http, responses, written>>
  /\ UNCHANGED <<valVars, conVars, str, bootVars>>
  /\ UNCHANGED srvVars

-----------------------------------------------------------------------------
(* Lookups, and the expiry of keys.                                        *)

\* A call of primacron.find(account, session, fn).
FindCall(account, session) ==
  /\ Cardinality({i \in 1..Len(replies) : replies[i].op = "find"})
       + Cardinality({i \in 1..Len(redisQ) : redisQ[i].cmd = "get"}) < MaxFinds
  /\ redisQ' = Append(redisQ, Find(account, session))
  /\ UNCHANGED <<redis, replies>>
  /\ UNCHANGED <<valVars, conVars, str>>
  /\ UNCHANGED <<netVars, bootVars>>
  /\ UNCHANGED srvVars

\* The reply to GET: the callback `parse`.
Get(failed) ==
  /\ redisQ # <<>> /\ Head(redisQ).cmd = "get"
  /\ LET q == Head(redisQ)
         err == IF failed THEN "Error: ERR" ELSE "undefined"
         data == IF failed THEN NoString ELSE redis.keys[q.key]
     IN /\ redisQ' = Tail(redisQ)
        \* kept for the properties: whether Redis failed, and the last command
        \* that had changed the key
        /\ replies' = Append(replies, [op |-> "find", key |-> q.key, failed |-> failed,
                                       after |-> redis.last[q.key]] @@ Parse(err, data))
  /\ UNCHANGED redis
  /\ UNCHANGED <<valVars, conVars, str>>
  /\ UNCHANGED <<netVars, bootVars>>
  /\ UNCHANGED srvVars

\* SETEX key timeout value: Redis drops the key once the timeout has passed.
Expire(k) ==
  /\ redis.keys[k] # NoString
  /\ redis' = [redis EXCEPT !.keys[k] = NoString, !.last[k] = <<"expire">>]
  /\ clock' = [clock EXCEPT !.ttl[k] = 0]
  /\ UNCHANGED <<redisQ, replies>>
  /\ UNCHANGED <<valVars, conVars, str>>
  /\ UNCHANGED <<netVars, bootVars>>
  /\ UNCHANGED <<intercepted, redirect, network, httpServer, ended, primus>>

\* One second passes in Redis: the keys in their last second are dropped.
Tick ==
  /\ \E k \in AllKeys : clock.ttl[k] > 0 \/ clock.age[k] < timeout
  /\ clock' = [ttl |-> [k \in AllKeys |-> IF clock.ttl[k] > 0 THEN clock.ttl[k] - 1 ELSE 0],
               age |-> [k \in AllKeys |-> IF clock.age[k] < timeout THEN clock.age[k] + 1
                                          ELSE clock.age[k]]]
  /\ redis' = [redis EXCEPT
                 !.keys = [k \in AllKeys |-> IF clock.ttl[k] = 1 THEN NoString ELSE @[k]],
                 !.last = [k \in AllKeys |-> IF clock.ttl[k] = 1 THEN <<"expire">> ELSE @[k]]]
  /\ UNCHANGED <<redisQ, replies>>
  /\ UNCHANGED <<valVars, conVars, str>>
  /\ UNCHANGED <<netVars, bootVars>>
  /\ UNCHANGED <<intercepted, redirect, network, httpServer, ended, primus>>

-----------------------------------------------------------------------------
(* Primacron.prototype.end, called with any type.                          *)

\* The types end is called with: those of the precompiled responses, a type
\* that names nothing, and names of properties every function has.
TypeNames == Types \cup {"i dont exist", "name", "length", "call"}

\* end(type) and end(type, res): what is returned, and what res has become.
EndCall(type, given) ==
  /\ Len(ended) < MaxEnds
  /\ ended' = Append(ended,
       IF ~given
       THEN [type |-> type, given |-> FALSE, returned |-> Msg(type),
             res |-> NoRes, thrown |-> FALSE]
       ELSE IF Answers(type)
       THEN [type |-> type, given |-> TRUE, returned |-> Msg(type),
             res |-> Ended(type, NoRes), thrown |-> FALSE]
       ELSE [type |-> type, given |-> TRUE, returned |-> Undefined,
             res |-> NoRes, thrown |-> TRUE])
  /\ UNCHANGED <<valVars, conVars, dirVars, str, netVars, bootVars>>
  /\ UNCHANGED <<intercepted, redirect, clock, network, httpServer, primus>>

-----------------------------------------------------------------------------
(* The network address of the node: uri, network and listen.               *)

NaN == [t |-> "NaN"]

\* What the application hands to network and to listen.
Addresses == {Undefined, String(""), String("127.0.0.1"), String("internal.dns"),
              String("10.0.0.1")}
Ports == {Undefined, Number(0), Number(1337), Number(2456)}
ListenArguments == {Undefined, Number(0), Number(1337), String("8080"), String("/tmp/sock")}

\* Boolean(v) for the values of an address and of a port
Boolean(v) ==
  IF v.t = "string" THEN v.v # ""
  ELSE v.t = "number" /\ v.n # 0

\* +args[0]
Plus(v) ==
  IF v.t = "number" THEN v
  ELSE IF v = String("8080") THEN Number(8080)
  ELSE NaN

\* [this.networkaddress, this.port].filter(Boolean).join(':')
Join(parts) ==
  LET kept == SelectSeq(parts, Boolean)
      RECURSIVE Joined(_)
      Joined(i) == IF i > Len(kept) THEN <<>>
                   ELSE (IF i > 1 THEN <<":">> ELSE <<>>)
                        \o <<IF kept[i].t = "string" THEN kept[i].v ELSE ToString(kept[i].n)>>
                        \o Joined(i + 1)
  IN Joined(1)

\* The getter of uri.
UriOf(node) == <<"http://">> \o Join(<<node.networkaddress, node.port>>)

\* A network that takes the port as it comes, given or not.
PortAlways(old, port) == IF port = Undefined THEN Null ELSE port

\* if (port) this.port = port
PortGiven(old, port) == IF Boolean(port) THEN port ELSE old

\* Primacron.prototype.network
Network(address, port) ==
  /\ network' = [networkaddress |-> IF Boolean(address) THEN address
                                    ELSE network.networkaddress,
                 port |-> PortGiven(network.port, port)]
  /\ network' # network
  /\ UNCHANGED <<valVars, conVars, dirVars, str, netVars, bootVars>>
  /\ UNCHANGED <<intercepted, redirect, clock, httpServer, ended, primus>>

\* this.primus = null; this.primusQueue = []: no instance was made, nothing
\* is queued, no instance got a call, the application made no call.
NoPrimus == [created |-> 0, queue |-> <<>>, applied |-> <<>>, calls |-> 0]

\* The methods of Primus that the instance proxies.
Missing == {"use", "library", "save", "transform"}

\* The proxy of a method of Primus, called by the application: queued while
\* there is no Primus, handed to it otherwise.
Proxy(method) ==
  /\ primus.calls < MaxProxies
  /\ LET queued == [method |-> method, call |-> primus.calls + 1]
     IN primus' = IF primus.created = 0
                  THEN [primus EXCEPT !.calls = @ + 1, !.queue = Append(@, queued)]
                  ELSE [primus EXCEPT !.calls = @ + 1,
                          !.applied = Append(@, [instance |-> primus.created,
                                                 by |-> "proxy"] @@ queued)]
  /\ UNCHANGED <<valVars, conVars, dirVars, str, netVars, bootVars>>
  /\ UNCHANGED <<intercepted, redirect, clock, network, httpServer, ended>>

\* A queue that is left as it is once its commands are processed.
Kept(queue) == queue

\* this.primusQueue.length = 0
Emptied(queue) == <<>>

\* listen: a new Primus, the plugin and the client library of Primacron
\* itself (call 0), then the queued commands in their order; the queue is
\* emptied.  applied keeps which code handed each call to Primus.
Processed(p) ==
  [p EXCEPT !.created = @ + 1,
            !.applied = @ \o [i \in 1..2 |->
                                [instance |-> p.created + 1, by |-> "listen",
                                 method |-> <<"use", "save">>[i], call |-> 0]]
                          \o [i \in 1..Len(p.queue) |->
                                [instance |-> p.created + 1, by |-> "listen"] @@ p.queue[i]],
            !.queue = Emptied(@)]

\* Primacron.prototype.listen: the port is recorded, the HTTP server is
\* created and gets all the arguments.
Listen(argument) ==
  /\ (httpServer.created => httpServer.listens < MaxListens)
  /\ network' = [network EXCEPT !.port = PortGiven(@, Plus(argument))]
  /\ httpServer' = [created |-> TRUE, args |-> argument,
                    listens |-> IF httpServer.created THEN httpServer.listens + 1 ELSE 1]
  /\ primus' = Processed(primus)
  /\ UNCHANGED <<valVars, conVars, dirVars, str, netVars, bootVars>>
  /\ UNCHANGED <<intercepted, redirect, clock, ended>>

-----------------------------------------------------------------------------
(* The Primacron that is built on Primus by plugins (src/unnamed/part_002):*)
(* its constructor and its listen.                                         *)

\* The HTTP servers an application can hand to the constructor, or that
\* create-server makes: idle or listening already, with or without a
\* listener of 'listening' that is not ours.
Servers ==
  {[created |-> TRUE, state |-> state, others |-> others, proxies |-> 0,
    listens |-> 0, events |-> 0, relistened |-> FALSE] :
     state \in {"idle", "listening"}, others \in {0, 1}}

\* !!this.server.listeners('listening').length
Listening(srv) == srv.others + srv.proxies > 0

\* listen: the events of the server are proxied to the instance, and the
\* server is told to listen unless `listening` says it does already.
Listened(srv) ==
  [srv EXCEPT !.proxies = @ + 1,
              !.listens = IF Listening(srv) THEN @ ELSE @ + 1,
              !.state = IF Listening(srv) \/ @ = "listening" THEN @ ELSE "starting",
              !.relistened = @ \/ (~Listening(srv) /\ srv.state = "listening")]

\* The constructor: if (listening) this.listen()
Plugged(srv) == IF Listening(srv) THEN Listened(srv) ELSE srv

\* Primacron.readable('listen', ..) called by the application.
PluginListen ==
  /\ httpServer.proxies < MaxListens
  /\ httpServer' = Listened(httpServer)
  /\ UNCHANGED <<valVars, conVars, dirVars, str, netVars, bootVars>>
  /\ UNCHANGED <<intercepted, redirect, clock, network, ended, primus>>

\* The server emits an event: every proxy that listen has installed emits
\* it on the instance.
ServerEvent(event) ==
  /\ httpServer.events < MaxEvents
  /\ \/ event = "listening" /\ httpServer.state = "starting"
     \/ event = "close" /\ httpServer.state = "listening"
     \/ event = "error"
  /\ httpServer' = [httpServer EXCEPT
                      !.events = @ + 1,
                      !.state = IF event = "listening" THEN "listening"
                                ELSE IF event = "close" THEN "closed" ELSE @]
  /\ emitted' = emitted \o [i \in 1..httpServer.proxies |->
                              [msg |-> 0, call |-> 0, type |-> event]]
  /\ UNCHANGED <<validators, calls, sent, thrown, received>>
  /\ UNCHANGED <<conVars, dirVars, str, netVars, bootVars>>
  /\ UNCHANGED <<intercepted, redirect, clock, network, ended, primus>>

-----------------------------------------------------------------------------
(* The node as its constructor leaves it.                                  *)

\* this.server = null
NoServer == [created |-> FALSE]

\* The constructor with its defaults; the keys that Redis holds have their
\* whole time to live ahead.
Constructed ==
  /\ intercepted = <<>>
  /\ redirect = "(false)"
  /\ clock = [ttl |-> [k \in AllKeys |-> IF redis.keys[k] = NoString THEN 0 ELSE timeout],
              age |-> [k \in AllKeys |-> 0]]
  /\ network = [networkaddress |-> String(networkaddress), port |-> Null]
  /\ httpServer = NoServer
  /\ ended = <<>>
  /\ primus = NoPrimus

-----------------------------------------------------------------------------
(* The specifications.                                                     *)

NoFound == [err |-> "undefined", server |-> NoString, id |-> NoString]
NoStr == [value |-> NoString, looked |-> FALSE, found |-> NoFound]

\* The validation pipeline of a node with one connection whose bootstrap is done.
Init ==
  /\ validators = <<>> /\ calls = <<>> /\ emitted = <<>> /\ sent = <<>>
  /\ thrown = <<>> /\ received = <<>>
  /\ pc = [c \in ConnIds |-> IF c = <<"c1">> THEN "handshaken" ELSE "new"]
  /\ query = [c \in ConnIds |-> IF c = <<"c1">> THEN [account |-> "a1", session |-> "s1"]
                                ELSE NoQuery]
  /\ connections = {}
  /\ sockets = [s \in Sessions \cup CustomSessions |-> NoString]
  /\ sockettail = [c \in ConnIds |-> IF c = <<"c1">> THEN {} ELSE {NoString}]
  /\ sparktail = <<>>
  /\ redis = [EmptyRedis EXCEPT !.keys[Key("a1", "s1")] = uri \o <<"@", "c1">>,
                                !.last[Key("a1", "s1")] = <<"connect", "c1">>]
  /\ redisQ = <<>> /\ replies = <<>>
  /\ str = NoStr
  /\ http = <<>> /\ results = <<>> /\ responses = <<>> /\ written = <<>>
  /\ generator = DefaultGenerator /\ booted = [c \in ConnIds |-> NoBoot]
  /\ Constructed

\* The members of a 'primacron::tail' event: an empty address and a peer's.
TailMembers == {<<<<>>, <<"http://", "peer", "@", "p1">>>>}

Next ==
  \/ \E e \in {"foo", "message"}, n \in 0..MaxArity : Validate(e, n)
  \/ \E c \in ConnIds : Connection(c)
  \/ \E c \in ConnIds, d \in Decoded : Data(c, d)
  \/ \E i \in 1..Len(calls), o \in Outcomes : Callback(i, o[1], o[2])
  \/ \E c \in ConnIds, members \in TailMembers : TailEvent(c, members)
  \/ \E c \in ConnIds : End(c)

Spec == Init /\ [][Next]_vars

\* The life of the connections of a node and its session directory.
InitDir ==
  /\ validators = <<>> /\ calls = <<>> /\ emitted = <<>> /\ sent = <<>>
  /\ thrown = <<>> /\ received = <<>>
  /\ pc = [c \in ConnIds |-> "new"]
  /\ query = [c \in ConnIds |-> NoQuery]
  /\ connections = {}
  /\ sockets = [s \in Sessions \cup CustomSessions |-> NoString]
  /\ sockettail = [c \in ConnIds |-> {NoString}]
  /\ sparktail = <<>>
  /\ redis = EmptyRedis
  /\ redisQ = <<>> /\ replies = <<>>
  /\ str = NoStr
  /\ http = <<>> /\ results = <<>> /\ responses = <<>> /\ written = <<>>
  /\ generator = DefaultGenerator /\ booted = [c \in ConnIds |-> NoBoot]
  /\ Constructed

NextDir ==
  \/ \E c \in ConnIds, a \in Accounts : Initialise(c, a)
  \/ \E c \in ConnIds, s \in Sessions : Ticktock(c, "undefined", s)
  \/ \E a \in SetxArguments : Setx(a.err, a.result)
  \/ \E c \in ConnIds : Connection(c)
  \/ \E c \in ConnIds : End(c)
  \/ \E failed \in BOOLEAN : Del(failed)
  \/ \E a \in Accounts, s \in Sessions : FindCall(a, s)
  \/ \E failed \in BOOLEAN : Get(failed)
  \/ \E k \in AllKeys : Expire(k)

SpecDir == InitDir /\ [][NextDir]_vars

\* The session directory as time passes: connections register, lookups are
\* made, and Redis drops what has lived its seconds.
NextTtl ==
  \/ \E c \in ConnIds, a \in Accounts : Initialise(c, a)
  \/ \E c \in ConnIds, s \in Sessions : Ticktock(c, "undefined", s)
  \/ \E a \in SetxArguments : Setx(a.err, a.result)
  \/ \E a \in Accounts, s \in Sessions : FindCall(a, s)
  \/ \E failed \in BOOLEAN : Get(failed)
  \/ Tick

SpecTtl == InitDir /\ [][NextTtl]_vars

\* The application sets the address of the node and starts it.
NextNet ==
  \/ \E address \in Addresses, port \in Ports : Network(address, port)
  \/ \E argument \in ListenArguments : Listen(argument)

SpecNet == InitDir /\ [][NextNet]_vars

\* end on its own, called with any type, with and without a response.
NextEnd == \E type \in TypeNames, given \in BOOLEAN : EndCall(type, given)

SpecEnd == InitDir /\ [][NextEnd]_vars

\* The plugin-based Primacron on a server of the application's.
InitPlugin ==
  /\ validators = <<>> /\ calls = <<>> /\ emitted = <<>> /\ sent = <<>>
  /\ thrown = <<>> /\ received = <<>>
  /\ pc = [c \in ConnIds |-> "new"]
  /\ query = [c \in ConnIds |-> NoQuery]
  /\ connections = {}
  /\ sockets = [s \in Sessions \cup CustomSessions |-> NoString]
  /\ sockettail = [c \in ConnIds |-> {NoString}]
  /\ sparktail = <<>>
  /\ redis = EmptyRedis
  /\ redisQ = <<>> /\ replies = <<>>
  /\ str = NoStr
  /\ http = <<>> /\ results = <<>> /\ responses = <<>> /\ written = <<>>
  /\ generator = DefaultGenerator /\ booted = [c \in ConnIds |-> NoBoot]
  /\ intercepted = <<>>
  /\ redirect = "(false)"
  /\ clock = [ttl |-> [k \in AllKeys |-> 0], age |-> [k \in AllKeys |-> 0]]
  /\ network = [networkaddress |-> String(networkaddress), port |-> Null]
  /\ \E srv \in Servers : httpServer = Plugged(srv)
  /\ ended = <<>>
  /\ primus = NoPrimus

NextPlugin ==
  \/ PluginListen
  \/ \E event \in {"listening", "error", "close"} : ServerEvent(event)

SpecPlugin == InitPlugin /\ [][NextPlugin]_vars

\* find on its own: a value stored by some node of the cluster for some
\* connection, and what the callback of find receives for it.
Chunks == {"h", "c", "@"}
Strings(n) == UNION {[1..k -> Chunks] : k \in 0..n}

InitFind ==
  /\ validators = <<>> /\ calls = <<>> /\ emitted = <<>> /\ sent = <<>>
  /\ thrown = <<>> /\ received = <<>>
  /\ pc = [c \in ConnIds |-> "new"]
  /\ query = [c \in ConnIds |-> NoQuery]
  /\ connections = {}
  /\ sockets = [s \in Sessions \cup CustomSessions |-> NoString]
  /\ sockettail = [c \in ConnIds |-> {NoString}]
  /\ sparktail = <<>>
  /\ redis = EmptyRedis
  /\ redisQ = <<>> /\ replies = <<>>
  /\ \E address \in Strings(MaxStrLen), id \in Strings(MaxStrLen) :
       str = [value |-> <<"http://">> \o address \o <<"@">> \o id,
              looked |-> FALSE, found |-> NoFound]
  /\ http = <<>> /\ results = <<>> /\ responses = <<>> /\ written = <<>>
  /\ generator = DefaultGenerator /\ booted = [c \in ConnIds |-> NoBoot]
  /\ Constructed

FindStored ==
  /\ ~str.looked
  /\ str' = [str EXCEPT !.looked = TRUE, !.found = Parse("undefined", str.value)]
  /\ UNCHANGED <<valVars, conVars, dirVars>>
  /\ UNCHANGED <<netVars, bootVars>>
  /\ UNCHANGED srvVars

NextFind == FindStored

SpecFind == InitFind /\ [][NextFind]_vars

\* The broadcast handler of a node with two connections, one of them attached.
InitIn ==
  /\ validators = <<>> /\ calls = <<>> /\ emitted = <<>> /\ sent = <<>>
  /\ thrown = <<>> /\ received = <<>>
  /\ pc = [c \in ConnIds |-> IF c = <<"c1">> THEN "open" ELSE "handshaken"]
  /\ query = [c \in ConnIds |-> IF c = <<"c1">> THEN [account |-> "a1", session |-> "s1"]
                                ELSE [account |-> "a2", session |-> "u1"]]
  /\ connections = {<<"c1">>}
  /\ sockets = [s \in Sessions \cup CustomSessions |->
                  IF s = "s1" THEN <<"c1">> ELSE NoString]
  /\ sockettail = [c \in ConnIds |-> {}]
  /\ sparktail = <<>>
  /\ redis = [EmptyRedis EXCEPT !.keys[Key("a1", "s1")] = uri \o <<"@", "c1">>,
                                !.last[Key("a1", "s1")] = <<"connect", "c1">>,
                                !.keys[Key("a2", "u1")] = uri \o <<"@", "c2">>,
                                !.last[Key("a2", "u1")] = <<"connect", "c2">>]
  /\ redisQ = <<>> /\ replies = <<>>
  /\ str = NoStr
  /\ http = <<>> /\ results = <<>> /\ responses = <<>> /\ written = <<>>
  /\ generator = CustomGenerator
  /\ booted = [c \in ConnIds |->
                 Booted(NoBoot, "undefined", query[c].session, query[c].account)]
  /\ redirect = "(false)"
  /\ intercepted = [i \in 1..MaxRequests |->
       [by |-> "Primacron", websocket |-> FALSE,
        req |-> [method |-> "PUT", pathname |-> broadcast, account |-> FALSE]] @@
       Otherwise("Primacron", [method |-> "PUT", pathname |-> broadcast, account |-> FALSE])]
  /\ clock = [ttl |-> [k \in AllKeys |-> IF redis.keys[k] = NoString THEN 0 ELSE timeout],
              age |-> [k \in AllKeys |-> 0]]
  /\ network = [networkaddress |-> String(networkaddress), port |-> Null]
  /\ httpServer = NoServer
  /\ ended = <<>>
  /\ primus = NoPrimus

NextIn ==
  \/ \E body \in Bodies, caught \in BOOLEAN : Incoming(body, caught)
  \/ \E c \in ConnIds : Connection(c)
  \/ \E c \in ConnIds : End(c)

SpecIn == InitIn /\ [][NextIn]_vars

\* The HTTP server of a node with one attached connection: requests of any
\* kind arrive, those for the broadcast handler are answered once their
\* body is read.
InitHttp ==
  /\ validators = <<>> /\ calls = <<>> /\ emitted = <<>> /\ sent = <<>>
  /\ thrown = <<>> /\ received = <<>>
  /\ pc = [c \in ConnIds |-> IF c = <<"c1">> THEN "open" ELSE "new"]
  /\ query = [c \in ConnIds |-> IF c = <<"c1">> THEN [account |-> "a1", session |-> "s1"]
                                ELSE NoQuery]
  /\ connections = {<<"c1">>}
  /\ sockets = [s \in Sessions \cup CustomSessions |->
                  IF s = "s1" THEN <<"c1">> ELSE NoString]
  /\ sockettail = [c \in ConnIds |-> IF c = <<"c1">> THEN {} ELSE {NoString}]
  /\ sparktail = <<>>
  /\ redis = [EmptyRedis EXCEPT !.keys[Key("a1", "s1")] = uri \o <<"@", "c1">>,
                                !.last[Key("a1", "s1")] = <<"connect", "c1">>]
  /\ redisQ = <<>> /\ replies = <<>>
  /\ str = NoStr
  /\ http = <<>> /\ results = <<>> /\ responses = <<>> /\ written = <<>>
  /\ generator = DefaultGenerator
  /\ booted = [c \in ConnIds |->
                 IF c = <<"c1">> THEN Booted(NoBoot, "undefined", "s1", "a1") ELSE NoBoot]
  /\ intercepted = <<>>
  /\ redirect \in Redirects
  /\ clock = [ttl |-> [k \in AllKeys |-> IF redis.keys[k] = NoString THEN 0 ELSE timeout],
              age |-> [k \in AllKeys |-> 0]]
  /\ network = [networkaddress |-> String(networkaddress), port |-> Null]
  /\ httpServer = NoServer
  /\ ended = <<>>
  /\ primus = NoPrimus

NextHttp ==
  \/ \E websocket \in BOOLEAN, req \in Requests : ScalerIntercept(websocket, req)
  \/ \E req \in Requests : Intercept(req)
  \/ \E body \in Bodies, caught \in BOOLEAN : Incoming(body, caught)

SpecHttp == InitHttp /\ [][NextHttp]_vars

\* The application forwards messages and pipes sockets on a node with two
\* open connections; a third session lives on a peer, a fourth is unknown.
InitFwd ==
  /\ validators = <<>> /\ calls = <<>> /\ emitted = <<>> /\ sent = <<>>
  /\ thrown = <<>> /\ received = <<>>
  /\ pc = [c \in ConnIds |-> "open"]
  /\ query = [c \in ConnIds |-> IF c = <<"c1">> THEN [account |-> "a1", session |-> "s1"]
                                ELSE [account |-> "a2", session |-> "u1"]]
  /\ connections = ConnIds
  /\ sockets = [s \in Sessions \cup CustomSessions |->
                  IF s = "s1" THEN <<"c1">> ELSE <<"c2">>]
  /\ sockettail = [c \in ConnIds |-> {}]
  /\ sparktail = <<>>
  /\ redis = [EmptyRedis EXCEPT !.keys[Key("a1", "s1")] = uri \o <<"@", "c1">>,
                                !.last[Key("a1", "s1")] = <<"connect", "c1">>,
                                !.keys[Key("a2", "u1")] = uri \o <<"@", "c2">>,
                                !.last[Key("a2", "u1")] = <<"connect", "c2">>,
                                !.keys[Key("a2", "s1")] = <<"http://", "peer", "@", "p1">>,
                                !.last[Key("a2", "s1")] = <<"connect", "p1">>]
  /\ redisQ = <<>> /\ replies = <<>>
  /\ str = NoStr
  /\ http = <<>> /\ results = <<>> /\ responses = <<>> /\ written = <<>>
  /\ generator = CustomGenerator
  /\ booted = [c \in ConnIds |->
                 Booted(NoBoot, "undefined", query[c].session, query[c].account)]
  /\ Constructed

NextFwd ==
  \/ \E a \in Accounts, s \in Sessions \cup CustomSessions : Forward(a, s, String("hello"))
  \/ \E failed \in BOOLEAN : Found(failed)
  \/ \E i \in 1..Len(http), response \in Responses : Response(i, response)
  \/ \E c \in ConnIds, a \in Accounts, s \in Sessions \cup CustomSessions : Pipe(c, a, s)
  \/ \E failed \in BOOLEAN : Follow(failed)

SpecFwd == InitFwd /\ [][NextFwd]_vars

\* The bootstrap of connections, with tailgator sets that other nodes filled
\* and generators installed at any moment.
Tailgators == {{}, {<<"http://", "peer", "@", "p1">>}}

\* What a generator hands to its callback: a session id, or an error.
Generated ==
  {[err |-> "undefined", session |-> s] : s \in Sessions \cup CustomSessions}
    \cup {[err |-> "Error: no session", session |-> "(undefined)"]}

InitBoot ==
  /\ validators = <<>> /\ calls = <<>> /\ emitted = <<>> /\ sent = <<>>
  /\ thrown = <<>> /\ received = <<>>
  /\ pc = [c \in ConnIds |-> "new"]
  /\ query = [c \in ConnIds |-> NoQuery]
  /\ connections = {}
  /\ sockets = [s \in Sessions \cup CustomSessions |-> NoString]
  /\ sockettail = [c \in ConnIds |-> {NoString}]
  /\ sparktail = <<>>
  /\ \E pipe \in [AllKeys -> Tailgators] : redis = [EmptyRedis EXCEPT !.pipe = pipe]
  /\ redisQ = <<>> /\ replies = <<>>
  /\ str = NoStr
  /\ http = <<>> /\ results = <<>> /\ responses = <<>> /\ written = <<>>
  /\ generator = DefaultGenerator /\ booted = [c \in ConnIds |-> NoBoot]
  /\ Constructed

NextBoot ==
  \/ \E g \in {DefaultGenerator, CustomGenerator} : Uuid(g)
  \/ \E c \in ConnIds, a \in Accounts : Initialise(c, a)
  \/ \E c \in ConnIds, g \in Generated : Ticktock(c, g.err, g.session)
  \/ \E a \in SetxArguments : Setx(a.err, a.result)

SpecBoot == InitBoot /\ [][NextBoot]_vars

-----------------------------------------------------------------------------
(* Properties.                                                             *)

StreamTypes == {"stream::foo", "stream::message"}
IsStream(e) == e.type \in StreamTypes
IsValidationError(e) == e.type = "error::validation"

\* what the continuation of call i emitted, in order: one entry per invocation
EmissionsOf(i) == SelectSeq(emitted, LAMBDA e : e.call = i)
\* what was emitted for message m
StreamsFor(m) == {e \in 1..Len(emitted) : emitted[e].msg = m /\ IsStream(emitted[e])}
ValidationErrorsFor(m) ==
  {e \in 1..Len(emitted) : emitted[e].msg = m /\ IsValidationError(emitted[e])}

\* the channel a decoded message is dispatched on
ChannelOf(d) == IF d.kind \in {"event", "eventnoargs"} THEN d.event ELSE "message"
\* the user record of the connection a message arrived on
UserOf(m) == User(query[received[m].conn].account, query[received[m].conn].session,
                  received[m].conn)

\* an invocation of a continuation with no error and ok not false, an error
\* being what JavaScript takes for one: a truthy err
Approved(o) == ~Truthy(o.err) /\ o.ok # "false"

\* C1: every stream::<event> emission is made by the continuation of a
\* validator registered for <event>, run on that same message, at an
\* invocation with no error and ok not false: the n-th thing a continuation
\* emits is a stream::<event> exactly when its n-th invocation was such a one.
\* So a message whose validators only reported errors or ok === false, have
\* not completed, or do not exist has no stream::<event> emission.
C1_ValidationBeforeEmit ==
  /\ \A e \in 1..Len(emitted) : IsStream(emitted[e]) =>
       /\ emitted[e].call \in 1..Len(calls)
       /\ LET call == calls[emitted[e].call]
          IN /\ call.msg = emitted[e].msg
             /\ emitted[e].type = "stream::" \o call.event
             /\ ChannelOf(received[call.msg].data) = call.event
             /\ \E v \in Range(validators) : v.event = call.event
  /\ \A i \in 1..Len(calls) :
       /\ Len(EmissionsOf(i)) = Len(calls[i].outcomes)
       /\ \A j \in 1..Len(calls[i].outcomes) :
            IsStream(EmissionsOf(i)[j]) <=> Approved(calls[i].outcomes[j])

\* C1 witness: one message was validated and emitted while another, whose
\* validator only rejected it, and one without a validator were not.
C1_Witness ==
  /\ \E e \in 1..Len(emitted) : IsStream(emitted[e])
  /\ \E i \in 1..Len(calls) :
       /\ calls[i].outcomes # <<>>
       /\ \A j \in 1..Len(calls[i].outcomes) : ~Approved(calls[i].outcomes[j])
       /\ StreamsFor(calls[i].msg) = {}

\* C2: a message dispatched to one validator yields at most one
\* stream::<event> and at most one error::validation, however often the
\* validator invokes its continuation, and exactly one stream::<event> once
\* the validator has completed successfully.
C2_AtMostOneEmit ==
  \A m \in 1..Len(received) :
    LET mine == {i \in 1..Len(calls) : calls[i].msg = m}
    IN Cardinality(mine) = 1 =>
         /\ Cardinality(StreamsFor(m)) <= 1
         /\ Cardinality(ValidationErrorsFor(m)) <= 1
         /\ \A i \in mine :
              (\E j \in 1..Len(calls[i].outcomes) : Approved(calls[i].outcomes[j]))
                => Cardinality(StreamsFor(m)) = 1

\* What C3 says of invocation j of the continuation of call i when it is a
\* rejection: error::validation with the validator's error (the default one
\* when the validator gave none) and the context of the message, no
\* stream::<event>, no request to a tailgator.
RejectionReported(i, j) ==
    LET o == calls[i].outcomes[j]
        e == EmissionsOf(i)[j]
    IN   /\ e.type = "error::validation"
         /\ e.err = IF Truthy(o.err) THEN o.err ELSE "Error: Failed to validate the data"
         /\ e.context = [event |-> calls[i].event, raw |-> Raw(received[calls[i].msg].data),
                         user |-> UserOf(calls[i].msg)]
         /\ \A k \in 1..Len(sent) : ~(sent[k].call = i /\ sent[k].completion = j)

\* C3 as stated: an invocation with err other than null/undefined, or with
\* ok === false, is reported as error::validation.
C3_Original ==
  \A i \in 1..Len(calls) : \A j \in 1..Len(calls[i].outcomes) :
    LET o == calls[i].outcomes[j]
    IN (o.err \notin {"undefined", "null"} \/ o.ok = "false") => RejectionReported(i, j)

\* C3 as amended: an invocation with a truthy err, or with ok === false, is
\* reported as error::validation with the validator's error (the default
\* 'Failed to validate the data' when err is not truthy) and the context
\* {event, raw, user} of the message; it emits no stream::<event> and sends
\* nothing to tailgators.
C3_RejectionReported ==
  \A i \in 1..Len(calls) : \A j \in 1..Len(calls[i].outcomes) :
    LET o == calls[i].outcomes[j]
    IN (Truthy(o.err) \/ o.ok = "false") => RejectionReported(i, j)

\* C3 witness: a validator rejected with an error of its own and another
\* invocation rejected with ok === false alone.
C3_Witness ==
  /\ \E e \in 1..Len(emitted) :
       /\ emitted[e].call > 0 /\ IsValidationError(emitted[e])
       /\ emitted[e].err = "Error: custom"
  /\ \E e \in 1..Len(emitted) :
       /\ emitted[e].call > 0 /\ IsValidationError(emitted[e])
       /\ emitted[e].err = "Error: Failed to validate the data"

\* the data arguments a message hands to its validators
DataOf(m) == IF received[m].data.kind = "event" THEN received[m].data.args
             ELSE <<[t |-> "object"]>>
\* position p of the data arguments, unset past their end
DataAt(m, p) == IF p <= Len(DataOf(m)) THEN DataOf(m)[p] ELSE Undefined

\* C4: a decoded message (an object) whose validate:: channel has no listener
\* causes exactly one error::validation 'Validator missing' with the context
\* {event, raw, user}; no validator runs, nothing is streamed, nothing is sent.
C4_ValidatorMissing ==
  [][(/\ Len(received') = Len(received) + 1
      /\ received'[Len(received')].data.kind # "primitive"
      /\ Listeners(ChannelOf(received'[Len(received')].data)) = <<>>)
     => /\ Len(emitted') = Len(emitted) + 1
        /\ SubSeq(emitted', 1, Len(emitted)) = emitted
        /\ LET e == emitted'[Len(emitted')]
               m == Len(received) + 1
               c == received'[Len(received')].conn
               d == received'[Len(received')].data
           IN /\ e.type = "error::validation"
              /\ e.err = "Error: Validator missing"
              /\ e.msg = m
              /\ DOMAIN e.context = {"event", "raw", "user"}
              /\ e.context.raw = Raw(d)
              /\ e.context.user = User(query[c].account, query[c].session, c)
              /\ d.kind # "object" => e.context.event = d.event
        /\ calls' = calls
        /\ sent' = sent
        /\ thrown' = thrown]_vars

C6_StreamArguments ==
  \A e \in 1..Len(emitted) : IsStream(emitted[e]) =>
    LET call == calls[emitted[e].call]
        n == call.callbackargument + 1
        args == emitted[e].args
    IN /\ Len(args) = n + 1
       /\ \A p \in 1..(n - 1) : args[p] = DataAt(call.msg, p)
       /\ args[n] = Raw(received[call.msg].data)
       /\ args[n + 1] = UserOf(call.msg)

\* the part of an address before / after its '@'
BeforeAt(s) == SubSeq(s, 1, IndexOf(s, "@", 1) - 1)
AfterAt(s) == SubSeq(s, IndexOf(s, "@", 1) + 1, Len(s))

\* C10: when a continuation approves a message of a connection that is still
\* attached, one request goes to each non-empty address of the connection's
\* tail, to the peer and connection id parsed from it, with the raw payload.
C10_TailFanOut ==
  [][\A i \in 1..Len(calls) :
       (/\ Len(calls'[i].outcomes) = Len(calls[i].outcomes) + 1
        /\ Approved(calls'[i].outcomes[Len(calls'[i].outcomes)])
        /\ received[calls[i].msg].conn \in connections)
       => LET gators == SelectSeq(sparktail, LAMBDA g : g # <<>>)
          IN sent' = sent \o
               [g \in 1..Len(gators) |->
                  [call |-> i, completion |-> Len(calls'[i].outcomes),
                   uri |-> BeforeAt(gators[g]) \o broadcast, method |-> "PUT",
                   json |-> [id |-> AfterAt(gators[g]),
                             message |-> Raw(received[calls[i].msg].data)]]]]_vars

\* C7: an open connection has a session entry that holds this node's URL and
\* its id, and the entry of a connection whose Unregister has completed is
\* absent.
C7_OpenConnectionRegistered ==
  \A c \in ConnIds :
    LET key == Key(query[c].account, query[c].session)
    IN /\ pc[c] = "open" => redis.keys[key] = uri \o <<"@">> \o c
       /\ pc[c] = "unregistered" => redis.keys[key] = NoString

\* C8: a Lookup that Redis answers returns (uri, c) when the last command
\* that changed the key was the Register of c, absent when it was an
\* Unregister, and absent without an error when the key was never written.
C8_RoundTrip ==
  \A r \in 1..Len(replies) :
    LET f == replies[r]
    IN ~f.failed =>
         /\ f.after[1] = "connect" =>
              f.err = "undefined" /\ f.server = uri /\ f.id = Tail(f.after)
         /\ f.after[1] = "disconnect" =>
              f.err = "undefined" /\ f.server = NoString /\ f.id = NoString
         /\ f.after[1] = "none" =>
              f.err = "undefined" /\ f.server = NoString /\ f.id = NoString

\* C8 witness: a connection was looked up after its Register and again after
\* its Unregister.
C8_Witness ==
  \E r1, r2 \in 1..Len(replies) :
    /\ r1 < r2
    /\ replies[r1].key = replies[r2].key
    /\ replies[r1].after[1] = "connect" /\ replies[r1].server = uri
    /\ replies[r2].after = <<"disconnect">> \o Tail(replies[r1].after)
    /\ replies[r2].server = NoString

\* C9: Lookup returns what is before the first '@' of the stored value as
\* the node URL and everything after that '@' as the connection id.
C9_SplitOnFirstAt ==
  str.looked =>
    /\ str.found.server = BeforeAt(str.value)
    /\ str.found.id = AfterAt(str.value)

\* C19: the bootstrap of a connection with account a takes its session s
\* from the generator in use at that moment (the one last given to uuid),
\* stores s in the query of the connection and issues one Register(a, s, id);
\* when the Register succeeds the tail of the socket (socket.tail) is the tailgator set
\* that the Register returned and the bootstrap completes, once, with
\* {session: s, account: a}.
C19_Bootstrap ==
  [][\A c \in ConnIds :
       /\ (pc[c] = "tick" /\ pc'[c] = "connecting") =>
            /\ query'[c].session \in generator.ids
            /\ query'[c].account = query[c].account
            /\ redisQ' = Append(redisQ, Connect(query[c].account, query'[c].session, c))
       /\ (pc[c] = "connecting" /\ pc'[c] = "handshaken") =>
            /\ sockettail'[c] = redis.pipe[Key(query[c].account, query[c].session)]
            /\ booted'[c] = [calls |-> 1, err |-> "undefined",
                             session |-> query[c].session, account |-> query[c].account]
       /\ Len(SelectSeq(redisQ', LAMBDA q : q.cmd = "multi" /\ q.id = c))
            > Len(SelectSeq(redisQ, LAMBDA q : q.cmd = "multi" /\ q.id = c))
          => pc[c] = "tick"]_vars

\* C19 witness: a bootstrap completed with a session of the generator given
\* to uuid and a tail that is not empty.
C19_Witness ==
  \E c \in ConnIds :
    /\ pc[c] = "handshaken"
    /\ booted[c].calls = 1 /\ booted[c].session \in CustomSessions
    /\ sockettail[c] = {<<"http://", "peer", "@", "p1">>}

\* C11: when a message of an attached connection is approved, the
\* stream::<event> is emitted, and every non-empty address of the tail gets
\* its Send, or an error:: event when the Send could not be made: a failure
\* is reported on the node and touches neither the local emission nor the
\* Sends to the other addresses.
C11_FailedSendReported ==
  [][\A i \in 1..Len(calls) :
       (/\ Len(calls'[i].outcomes) = Len(calls[i].outcomes) + 1
        /\ Approved(calls'[i].outcomes[Len(calls'[i].outcomes)])
        /\ received[calls[i].msg].conn \in connections)
       => /\ Len(emitted') > Len(emitted)
          /\ IsStream(emitted'[Len(emitted) + 1])
          /\ \A g \in 1..Len(sparktail) : sparktail[g] # <<>> =>
               \/ \E k \in (Len(sent) + 1)..Len(sent') :
                    /\ sent'[k].uri = BeforeAt(sparktail[g]) \o broadcast
                    /\ sent'[k].json.id = AfterAt(sparktail[g])
               \/ \E e \in (Len(emitted) + 1)..Len(emitted') :
                    /\ ~IsStream(emitted'[e])
                    /\ emitted'[e].call = i]_vars

\* C12: the stream::<event> emissions for the messages of one connection
\* come in the order in which the messages were received, whenever the
\* validators complete.
C12_ReceiveOrder ==
  \A e1, e2 \in 1..Len(emitted) :
    (/\ e1 < e2
     /\ IsStream(emitted[e1]) /\ IsStream(emitted[e2])
     /\ received[emitted[e1].msg].conn = received[emitted[e2].msg].conn)
    => emitted[e1].msg <= emitted[e2].msg

\* the response that C13 gives for a body, by the first check that fails
ClaimedResponse(body, attached) ==
  IF body.kind = "broken" THEN "broken"
  ELSE IF body.kind \in {"primitive", "array", "null"} THEN "invalid"
  ELSE IF body.keys # {"id", "message"} THEN "invalid"
  ELSE IF body.id \notin attached THEN "unknown socket"
  ELSE "sending"

\* C13: every request on the broadcast path whose body was read has exactly
\* one response: 400 'broken' when the body does not decode, 400 'invalid'
\* when the value is no object (an array, a primitive, null) or lacks id or
\* message, 404 'unknown socket' when id is not attached, 200 'sending'
\* otherwise.
C13_OneResponse ==
  \A n \in 1..Len(responses) :
    LET r == responses[n]
        claimed == ClaimedResponse(r.body, r.attached)
    IN /\ Len(r.answers) = 1
       /\ r.answers[1].type = claimed
       /\ r.answers[1].status = (IF claimed = "sending" THEN 200
                                 ELSE IF claimed = "unknown socket" THEN 404 ELSE 400)

\* the error events emitted for request n of the broadcast path
ErrorsOf(n) ==
  {e \in 1..Len(emitted) :
     /\ "request" \in DOMAIN emitted[e].context
     /\ emitted[e].context.request = n}

WrittenBy(c) == SelectSeq(written, LAMBDA w : w.conn = c)

\* C15: a well-formed envelope for an attached connection is answered with
\* 200 'sending' and dispatched by the type of its message: a string is
\* written to the client of that connection, the members of an array are
\* added to its tail unless already there, any other value is emitted as
\* 'primacron' and changes neither the tail nor what is written; no other
\* connection is touched.
C15_DispatchByType ==
  [][\A b \in Bodies :
       (/\ Len(responses') = Len(responses) + 1
        /\ responses'[Len(responses) + 1].body = b
        /\ b.kind = "object" /\ b.keys = {"id", "message"}
        /\ b.id \in connections)
       => /\ responses'[Len(responses) + 1].answers = <<[type |-> "sending", status |-> 200]>>
          /\ MessageType(b.message) = "String" =>
               /\ WrittenBy(b.id)' = Append(WrittenBy(b.id),
                                            [conn |-> b.id, op |-> "write", data |-> b.message])
               /\ TailOf(b.id)' = TailOf(b.id)
          /\ MessageType(b.message) = "Array" =>
               /\ TailOf(b.id)' = PushAll(TailOf(b.id), b.message.members)
               /\ WrittenBy(b.id)' = WrittenBy(b.id)
          /\ MessageType(b.message) = "Other" =>
               /\ WrittenBy(b.id)' = Append(WrittenBy(b.id),
                                            [conn |-> b.id, op |-> "primacron", data |-> b.message])
               /\ TailOf(b.id)' = TailOf(b.id)
          /\ \A c \in connections \ {b.id} :
               /\ WrittenBy(c)' = WrittenBy(c)
               /\ TailOf(c)' = TailOf(c)]_vars

\* what the callback of call k received from `requested`
ResultsOf(k) == SelectSeq(results[k].fn, LAMBDA f : f.response # NoResponse)

\* C16: a Send is one PUT to the peer's URL followed by the broadcast path
\* with the body {id, message}, never sent again, and its callback is invoked
\* once when the outcome is known: with the response body and no error for a
\* status of 200, with an error that carries the status and the body for any
\* other status, with the error of the transport and no status when there
\* was no response.
C16_Send ==
  \A k \in 1..Len(sent) :
    LET r == sent[k]
        inflight == \E i \in 1..Len(http) : http[i].caller = r.caller
        got == ResultsOf(r.caller)
    IN /\ r.method = "PUT"
       /\ r.uri = r.args.server \o broadcast
       /\ r.json = [id |-> r.args.id, message |-> r.args.message]
       /\ \A k2 \in 1..Len(sent) : sent[k2].caller = r.caller => k2 = k
       /\ Len(got) = (IF inflight THEN 0 ELSE 1)
       /\ \A j \in 1..Len(got) :
            LET f == got[j]
                o == got[j].response
            IN /\ (o.err = "undefined" /\ o.status = 200) =>
                    f.err = "undefined" /\ f.body = o.body
               /\ (o.err = "undefined" /\ o.status # 200) =>
                    f.err # "undefined" /\ f.status = o.status /\ f.body = o.body
               /\ o.err # "undefined" => f.err = o.err /\ f.status = NoStatus

\* C16 witness: one Send was answered with 200, another got no response.
C16_Witness ==
  \E k1, k2 \in 1..Len(results) :
    /\ Len(ResultsOf(k1)) = 1 /\ ResultsOf(k1)[1].response.status = 200
    /\ Len(ResultsOf(k2)) = 1 /\ ResultsOf(k2)[1].response.err # "undefined"

\* C17: a forward does one Lookup.  When the Lookup fails or finds nothing,
\* the callback gets the error, once ('Unknown session id' when nothing was
\* found), and no request is made.  When it finds an entry, one Send goes to
\* the node URL and connection id that were looked up, the callback gets what
\* that Send gave, and nothing is sent again whatever the outcome.
C17_Forward ==
  \A k \in 1..Len(results) : results[k].op = "forward" =>
    LET looked == SelectSeq(replies, LAMBDA l : l.call = k)
        pending == SelectSeq(redisQ, LAMBDA q : q.call = k)
        reqs == SelectSeq(sent, LAMBDA r : r.caller = k)
        inflight == \E i \in 1..Len(http) : http[i].caller = k
        fn == results[k].fn
    IN /\ Len(looked) + Len(pending) = 1
       /\ pending # <<>> => fn = <<>> /\ reqs = <<>>
       /\ \A l \in 1..Len(looked) :
            IF looked[l].failed \/ looked[l].server = NoString
            THEN /\ reqs = <<>>
                 /\ fn = <<Failed(IF looked[l].failed THEN looked[l].err
                                  ELSE "Error: Unknown session id " \o results[k].session)>>
            ELSE /\ Len(reqs) = 1
                 /\ reqs[1].args = [server |-> looked[l].server, id |-> looked[l].id,
                                    message |-> results[k].message]
                 /\ fn = (IF inflight THEN <<>> ELSE ResultsOf(k))
                 /\ Len(fn) = (IF inflight THEN 0 ELSE 1)

\* C17 witness: a forward whose Send was answered 404 'unknown socket'.
C17_Witness ==
  \E k \in 1..Len(results) :
    /\ results[k].op = "forward"
    /\ Len(results[k].fn) = 1
    /\ results[k].fn[1].status = 404 /\ results[k].fn[1].body = "unknown socket"
    /\ Len(SelectSeq(sent, LAMBDA r : r.caller = k)) = 1

\* C18: a pipe for an account other than the one of the requesting socket
\* gives its callback 'Cannot follow other accounts', looks nothing up and
\* sends nothing; and no tailgator set holds a socket of another account.
C18_NoFollowOtherAccounts ==
  /\ \A k \in 1..Len(results) :
       (results[k].op = "pipe" /\ results[k].account # query[results[k].conn].account) =>
         /\ results[k].fn = <<Failed("Error: Cannot follow other accounts")>>
         /\ \A q \in 1..Len(redisQ) : redisQ[q].call # k
         /\ \A l \in 1..Len(replies) : replies[l].call # k
         /\ \A r \in 1..Len(sent) : sent[r].caller # k
  /\ \A a \in Accounts, s \in Sessions \cup CustomSessions :
       \A member \in redis.pipe[Key(a, s)] :
         \E c \in ConnIds : member = uri \o <<"@">> \o c /\ query[c].account = a

\* C18 witness: a pipe for another account was refused, and a pipe for the
\* socket's own account has added the socket to a tailgator set.
C18_Witness ==
  /\ \E k \in 1..Len(results) :
       /\ results[k].op = "pipe"
       /\ results[k].account # query[results[k].conn].account
       /\ results[k].fn # <<>>
  /\ \E key \in AllKeys : redis.pipe[key] # {}

\* the Unregisters of connection c among the commands q
Unregisters(q, c) == SelectSeq(q, LAMBDA x : x.cmd = "del" /\ x.id = c)

DeliveredTo(c) ==
  UNION {Range(responses[n].body.message.members) :
           n \in {i \in 1..Len(responses) :
                    /\ responses[i].answers # <<>>
                    /\ responses[i].answers[1].type = "sending"
                    /\ responses[i].body.id = c
                    /\ MessageType(responses[i].body.message) = "Array"}}

\* C21: the tail list of a connection is its own: it holds nothing but the
\* tailgators its bootstrap read and the addresses of the tail events that
\* were delivered to this connection, so a tail event for one connection
\* never shows in the tail of another, and a connection with no tailgators
\* and no tail events has an empty tail.
C21_OwnTail ==
  \A c \in connections :
    Range(TailOf(c)) \subseteq sockettail[c] \cup DeliveredTo(c)

\* the arguments a message carries for its validate:: channel
ArgsOf(d) == IF d.kind = "event" THEN d.args
             ELSE IF d.kind = "eventnoargs" THEN <<>> ELSE <<[t |-> "object"]>>

\* C22: a client message that is no object causes exactly one error::invalid
\* with the context {raw, user} and reaches no validate:: channel; a message
\* with an event field reaches validate::<event> with its args, then the
\* user, then the raw payload; any other message reaches validate::message
\* with (data, user, raw); the user is the record of the connection.
C22_Preparser ==
  [][Len(received') = Len(received) + 1 =>
       LET m == Len(received) + 1
           c == received'[m].conn
           d == received'[m].data
           user == User(query[c].account, query[c].session, c)
           ls == Listeners(ChannelOf(d))
       IN IF d.kind = "primitive"
          THEN /\ Len(emitted') = Len(emitted) + 1
               /\ SubSeq(emitted', 1, Len(emitted)) = emitted
               /\ emitted'[Len(emitted')].type = "error::invalid"
               /\ emitted'[Len(emitted')].context = [raw |-> Raw(d), user |-> user]
               /\ calls' = calls
               /\ thrown' = thrown
          ELSE /\ \A e \in (Len(emitted) + 1)..Len(emitted') :
                    emitted'[e].type # "error::invalid"
               /\ thrown' = thrown
               /\ calls' = calls \o [j \in 1..Len(ls) |->
                             Validating(ls[j], ArgsOf(d) \o <<user, Raw(d)>>,
                                        Len(calls) + j, m)]]_vars

\* C23: when Redis has answered the write of a Register, either the write
\* succeeded and nothing is emitted, or the callback of Register received
\* the error and exactly one error::connect with the context {key, value}
\* was emitted; when it has answered the delete of an Unregister, either the
\* delete succeeded and nothing is emitted, or exactly one error::disconnect
\* with the context {key, value} was emitted.
C23_DirectoryErrors ==
  [][(redisQ # <<>> /\ redisQ' = Tail(redisQ)) =>
       LET q == Head(redisQ)
           context == [key |-> Key(query[q.id].account, query[q.id].session),
                       value |-> uri \o <<"@">> \o q.id]
       IN /\ q.cmd = "multi" =>
               \/ /\ redis'.keys[q.key] = q.value
                  /\ booted'[q.id].calls = booted[q.id].calls + 1
                  /\ booted'[q.id].err = "undefined"
                  /\ emitted' = emitted
               \/ /\ redis' = redis
                  /\ booted'[q.id].calls = booted[q.id].calls + 1
                  /\ booted'[q.id].err # "undefined"
                  /\ Len(emitted') = Len(emitted) + 1
                  /\ SubSeq(emitted', 1, Len(emitted)) = emitted
                  /\ emitted'[Len(emitted')].type = "error::connect"
                  /\ emitted'[Len(emitted')].err = booted'[q.id].err
                  /\ emitted'[Len(emitted')].context = context
          /\ q.cmd = "del" =>
               \/ /\ redis'.keys[q.key] = NoString
                  /\ pc'[q.id] = "unregistered"
                  /\ emitted' = emitted
               \/ /\ redis' = redis
                  /\ pc'[q.id] = "closed"
                  /\ Len(emitted') = Len(emitted) + 1
                  /\ SubSeq(emitted', 1, Len(emitted)) = emitted
                  /\ emitted'[Len(emitted')].type = "error::disconnect"
                  /\ emitted'[Len(emitted')].context = context]_vars

\* C24: whatever Redis answers to the write of a Register at bootstrap, the
\* bootstrap of the connection completes without an error, handing over
\* {session, account}; when the write failed the session has no entry for
\* this connection.
C24_RegisterFailureNotFatal ==
  [][(redisQ # <<>> /\ redisQ' = Tail(redisQ) /\ Head(redisQ).cmd = "multi") =>
       LET q == Head(redisQ)
       IN /\ booted'[q.id] = Booted(booted[q.id], "undefined",
                                    query[q.id].session, query[q.id].account)
          /\ \/ redis'.keys[q.key] = q.value
             \/ redis' = redis]_vars

\* a PUT in any letter case
IsPut(req) == req.method \in {"PUT", "put", "Put"}
\* the request is for the realtime transport
ForTransport(req) == req.pathname = endpoint /\ req.account
\* the header names of a response
HeaderNames(res) == {h.name : h \in res.headers}

\* C25: every request gets the first rule that applies, and no other: the
\* endpoint path with an account in the query goes to the realtime
\* transport; a WebSocket upgrade anywhere else is closed without a body; a
\* PUT in any letter case on the broadcast path goes to the broadcast
\* handler; with a redirect configured the answer is a 301 whose Location
\* is the redirect; anything else is answered with the 400 'bad request'.
C25_Classification ==
  \A i \in 1..Len(intercepted) :
    LET r == intercepted[i]
        rule == IF ForTransport(r.req) THEN "transport"
                ELSE IF r.websocket THEN "closed"
                ELSE IF IsPut(r.req) /\ r.req.pathname = broadcast THEN "incoming"
                ELSE IF redirect # "(false)" THEN "redirect"
                ELSE "bad request"
    IN /\ r.route = rule
       /\ r.route = "transport" => ~r.res.ended
       /\ r.route = "closed" => r.res.ended /\ r.res.body = Undefined
       /\ r.route = "redirect" =>
            /\ r.res.ended /\ r.res.statusCode = 301
            /\ [name |-> "Location", value |-> <<redirect>>] \in r.res.headers
       /\ r.route = "bad request" =>
            /\ r.res.ended /\ r.res.statusCode = 400
            /\ r.res.body.json.type = "bad request"

\* C25 witness: a WebSocket upgrade with an upper-case PUT on the broadcast
\* path was closed, and a mixed-case PUT request on that path went to the
\* broadcast handler.
C25_Witness ==
  \E i, j \in 1..Len(intercepted) :
    /\ intercepted[i].websocket /\ intercepted[i].req.method = "PUT"
    /\ intercepted[i].req.pathname = broadcast /\ intercepted[i].route = "closed"
    /\ intercepted[j].req.method = "Put" /\ intercepted[j].route = "incoming"

\* C26: a response carries the X-Powered-By header if and only if it is a
\* response of the broadcast handler, whatever its status (200, 400, 404).
C26_PoweredBy ==
  \A i \in 1..Len(intercepted) :
    LET r == intercepted[i]
    IN r.res.ended =>
         /\ "X-Powered-By" \in HeaderNames(r.res) <=> r.route = "incoming"
         /\ r.route = "incoming" => r.res.statusCode \in {200, 400, 404}

\* C26 witness: the broadcast handler answered one request with 404 and the
\* header, and a request on another path was answered with 400.
C26_Witness ==
  \E i, j \in 1..Len(intercepted) :
    /\ intercepted[i].route = "incoming" /\ intercepted[i].res.ended
    /\ intercepted[i].res.statusCode = 404
    /\ "X-Powered-By" \in HeaderNames(intercepted[i].res)
    /\ intercepted[j].route = "bad request" /\ intercepted[j].res.statusCode = 400

\* C27: an entry that a Register wrote is there, with the node URL and the
\* connection id, for less than `timeout` seconds after the write, and no
\* key has an entry once `timeout` seconds have passed since its last
\* Register: what a node that disappeared had written is gone after one
\* time to live.
C27_Expiry ==
  \A k \in AllKeys :
    /\ clock.age[k] >= timeout => redis.keys[k] = NoString
    /\ redis.last[k][1] = "connect" =>
         /\ redis.keys[k] = uri \o <<"@">> \o Tail(redis.last[k])
         /\ clock.age[k] < timeout

\* C27 witness: an entry was read after its Register, and is gone now that
\* its seconds have passed.
C27_Witness ==
  \E r \in 1..Len(replies) :
    /\ replies[r].after[1] = "connect" /\ replies[r].server = uri
    /\ redis.last[replies[r].key] = <<"expire">>
    /\ redis.keys[replies[r].key] = NoString
    /\ clock.age[replies[r].key] = timeout

\* the node URL the spec gives for an address and a port
ClaimedUri(node) ==
  <<"http://", node.networkaddress.v>>
    \o (IF node.port = Null THEN <<>> ELSE <<":", ToString(node.port.n)>>)

\* after every step uri is the URL of the address and the port
UriAsClaimed == UriOf(network') = ClaimedUri(network')

\* network leaves alone the fields it is not given
NetworkKeeps ==
  \A address \in Addresses, port \in Ports : Network(address, port) =>
    /\ address = Undefined => network'.networkaddress = network.networkaddress
    /\ port = Undefined => network'.port = network.port

ClaimedStatus(type) ==
  IF type \in {"broken", "invalid", "bad request"} THEN 400
  ELSE IF type = "unknown socket" THEN 404 ELSE 200

\* C29: end(type) returns the precompiled response of the type, and the
\* 'bad request' response for a type it does not know; end(type, res) has
\* answered res with that body and with its status: 400 for broken, invalid
\* and bad request, 404 for unknown socket, 200 for sending.
C29_End ==
  \A i \in 1..Len(ended) :
    LET e == ended[i]
        type == IF e.type \in Types THEN e.type ELSE "bad request"
    IN /\ ~e.thrown
       /\ e.returned.t = "buffer"
       /\ e.returned.json.type = type
       /\ e.given =>
            /\ e.res.ended
            /\ e.res.body = e.returned
            /\ e.res.statusCode = ClaimedStatus(type)

\* the events in the log of the instance that are of this type
Emitted(type) == SelectSeq(emitted, LAMBDA e : e.type = type)

\* C30: once listen has been called, a 'listening' and a 'close' event of
\* the HTTP server is re-emitted on the instance; and listen tells the
\* server to listen only when the server is not listening already.
C30_ListenProxies ==
  [][/\ \A event \in {"listening", "close"} :
          (ServerEvent(event) /\ httpServer.proxies > 0)
            => Len(Emitted(event)') > Len(Emitted(event))
     /\ (PluginListen /\ httpServer'.listens > httpServer.listens)
          => httpServer.state # "listening"]_vars


-----------------------------------------------------------------------------
(* A node whose own requests come back to its broadcast path.              *)

\* request's json option and the decoder of the receiving node:
\* JSON.stringify leaves a member out whose value is undefined or a function,
\* JSON.parse gives an object with the members that are left.
Json(json) ==
  LET keys == {k \in {"id", "message"} :
                 IF k = "id" THEN json.id # NoString
                 ELSE json.message.t \notin {"undefined", "function"}}
  IN IF keys = {"id", "message"}
     THEN [kind |-> "object", keys |-> keys, id |-> json.id, message |-> json.message]
     ELSE [kind |-> "object", keys |-> keys]

\* The requests that communicate has sent to this node, in their order.
Inbox == SelectSeq(sent, LAMBDA r : r.uri = uri \o broadcast)

\* The HTTP server of the node emits 'request' for the next of them.
Receive ==
  /\ Len(intercepted) < Len(Inbox)
  /\ Intercept([method |-> Inbox[Len(intercepted) + 1].method,
                pathname |-> broadcast, account |-> FALSE])

\* Its body has been read: the listener `end` of incoming, on what the
\* decoder makes of the document that was sent.
ReadBody(caught) ==
  /\ Len(responses) < Len(Inbox)
  /\ Incoming(Json(Inbox[Len(responses) + 1].json), caught)

\* The answer of incoming reaches `requested` of the request in flight.
Answered(i) ==
  /\ i \in 1..Len(http)
  /\ \E p \in 1..Len(responses) :
       /\ Inbox[p].caller = http[i].caller
       /\ responses[p].answers # <<>>
       /\ Response(i, [err |-> "undefined", status |-> responses[p].answers[1].status,
                       body |-> responses[p].answers[1].type])

\* What the application hands to forward as its message.
Forwarded == {String("hello"), Null, Undefined}

\* A connection c2 of account a1 is open; c1 is yet to open, with the same
\* session id if the generator yields it, and either may close.
InitPipe ==
  /\ validators = <<>> /\ calls = <<>> /\ emitted = <<>> /\ sent = <<>>
  /\ thrown = <<>> /\ received = <<>>
  /\ pc = [c \in ConnIds |-> IF c = <<"c2">> THEN "open" ELSE "new"]
  /\ query = [c \in ConnIds |-> IF c = <<"c2">> THEN [account |-> "a1", session |-> "s1"]
                                ELSE NoQuery]
  /\ connections = {<<"c2">>}
  /\ sockets = [s \in Sessions \cup CustomSessions |->
                  IF s = "s1" THEN <<"c2">> ELSE NoString]
  /\ sockettail = [c \in ConnIds |-> IF c = <<"c2">> THEN {} ELSE {NoString}]
  /\ sparktail = <<>>
  /\ redis = [EmptyRedis EXCEPT !.keys[Key("a1", "s1")] = uri \o <<"@", "c2">>,
                                !.last[Key("a1", "s1")] = <<"connect", "c2">>]
  /\ redisQ = <<>> /\ replies = <<>>
  /\ str = NoStr
  /\ http = <<>> /\ results = <<>> /\ responses = <<>> /\ written = <<>>
  /\ generator = DefaultGenerator
  /\ booted = [c \in ConnIds |->
                 IF c = <<"c2">> THEN Booted(NoBoot, "undefined", "s1", "a1") ELSE NoBoot]
  /\ Constructed

NextPipe ==
  \/ \E c \in ConnIds, a \in Accounts : Initialise(c, a)
  \/ \E c \in ConnIds, s \in Sessions : Ticktock(c, "undefined", s)
  \/ \E a \in SetxArguments : Setx(a.err, a.result)
  \/ \E c \in ConnIds : Connection(c)
  \/ \E c \in ConnIds : End(c)
  \/ \E failed \in BOOLEAN : Del(failed)
  \/ \E a \in Accounts, s \in Sessions, message \in Forwarded : Forward(a, s, message)
  \/ \E c \in ConnIds, a \in Accounts, s \in Sessions : Pipe(c, a, s)
  \/ \E failed \in BOOLEAN : Follow(failed)
  \/ \E failed \in BOOLEAN : Found(failed)
  \/ Receive
  \/ \E caught \in BOOLEAN : ReadBody(caught)
  \/ \E i \in 1..Len(http) : Answered(i)

SpecPipe == InitPipe /\ [][NextPipe]_vars

\* the address that pipe stores for a follower
Follower(c) == uri \o <<"@">> \o c

\* the pipes that completed without an error
Piped == {k \in 1..Len(results) :
            /\ results[k].op = "pipe" /\ results[k].fn # <<>>
            /\ results[k].fn[1].err = "undefined"}

C32_Unregister ==
  [][(redisQ # <<>> /\ Head(redisQ).cmd = "del" /\ redisQ' = Tail(redisQ))
     => /\ redis'.pipe = redis.pipe
        /\ \A k \in AllKeys \ {Head(redisQ).key} : redis'.keys[k] = redis.keys[k]
        /\ \/ redis'.keys[Head(redisQ).key] = NoString
           \/ /\ redis'.keys = redis.keys
              /\ Len(emitted') = Len(emitted) + 1
              /\ emitted'[Len(emitted')].type = "error::disconnect"]_vars

\* C32 witness: c1 registered over the entry of c2, then the unregister of
\* c2 removed the entry, which held the address of c1; a tailgator set has
\* a member.
C32_Witness ==
  /\ redis.last[Key("a1", "s1")] = <<"disconnect", "c2">>
  /\ redis.keys[Key("a1", "s1")] = NoString
  /\ pc[<<"c1">>] \in {"handshaken", "open"}
  /\ query[<<"c1">>] = [account |-> "a1", session |-> "s1"]
  /\ redis.pipe[Key("a1", "s1")] # {}

\* Primacron.prototype.socket: this.sockets[session]
Socket(session) == sockets[session]

\* C33: socket(c.session) is c for every open connection c whose connection
\* handler has run, and socket(session) is nothing for every session id that
\* no open connection carries.
C33_Sockets ==
  /\ \A c \in ConnIds : pc[c] = "open" => Socket(query[c].session) = c
  /\ \A s \in Sessions \cup CustomSessions :
       (\A c \in ConnIds : ~(pc[c] = "open" /\ query[c].session = s))
         => Socket(s) = NoString

\* C34: the step of initialise itself neither invokes the generator nor reads
\* the query: the session is not set, no command is sent and the callback is
\* not called; that is the work of a later turn, and once the reply to the
\* registration has arrived the callback of the bootstrap has been invoked
\* exactly once.
C34_NextTick ==
  /\ [][\A c \in ConnIds :
          (pc[c] = "new" /\ pc'[c] = "tick")
            => /\ query'[c].session = "(undefined)"
               /\ redisQ' = redisQ /\ booted' = booted]_vars
  /\ [](\A c \in ConnIds :
          booted[c].calls = IF pc[c] \in {"new", "tick", "connecting"} THEN 0 ELSE 1)

\* C35: every request that communicate has sent and that the receiving
\* node has read is answered 200 'sending' or 404 'unknown socket': its
\* envelope decodes and has the id and the message that the checks ask for.
C35_Envelope ==
  \A p \in 1..Len(responses) :
    /\ responses[p].body = Json(Inbox[p].json)
    /\ responses[p].answers # <<>>
    /\ responses[p].answers[1].status \in {200, 404}

\* C36: the handling of a decoded client message throws nothing and ends in
\* exactly one of three outcomes: one error::invalid, one error::validation,
\* or the invocation of the validators of its channel.
C36_OneOutcome ==
  [][Len(received') = Len(received) + 1 =>
       LET new == SubSeq(emitted', Len(emitted) + 1, Len(emitted'))
           invalid == new # <<>> /\ new[1].type = "error::invalid"
           validation == new # <<>> /\ new[1].type = "error::validation"
           invoked == Len(calls') > Len(calls)
       IN /\ thrown' = thrown
          /\ Len(new) <= 1
          /\ Cardinality({o \in {"invalid", "validation", "invoked"} :
                            \/ o = "invalid" /\ invalid
                            \/ o = "validation" /\ validation
                            \/ o = "invoked" /\ invoked}) = 1]_vars

\* the commands that Register has sent for connection c and the keys it wrote
Registered(c) ==
  {i \in 1..Len(redisQ) : redisQ[i].cmd = "multi" /\ redisQ[i].id = c}
WrittenFor(c) == {k \in AllKeys : redis.last[k] = <<"connect">> \o c}

\* C37: when the generator has reported an error, the bootstrap has completed
\* once, with that error; no Register was called and no key was written for
\* the connection, the session of its query is not set and its tail is not
\* assigned.
C37_GeneratorError ==
  \A c \in ConnIds :
    pc[c] = "aborted" =>
      /\ booted[c] = [calls |-> 1, err |-> "Error: no session",
                      session |-> "(undefined)", account |-> "(undefined)"]
      /\ Registered(c) = {} /\ WrittenFor(c) = {}
      /\ query[c].session = "(undefined)"
      /\ sockettail[c] = {NoString}

\* C37 witness: the generator failed for one connection while another one,
\* of the same account, has registered.
C37_Witness ==
  /\ pc[<<"c1">>] = "aborted" /\ pc[<<"c2">>] = "handshaken"
  /\ query[<<"c1">>].account = query[<<"c2">>].account


-----------------------------------------------------------------------------
(* Connections that bootstrap with tailgator sets filled by other nodes    *)
(* and receive tail events of any content.                                 *)

\* The arrays of tail events: addresses that repeat within the array, that
\* repeat an earlier event and that repeat a member of the tailgator set.
TailArrays ==
  {<<<<"http://", "peer", "@", "p1">>, <<"http://", "peer", "@", "p1">>>>,
   <<<<"http://", "peer", "@", "p2">>, <<"http://", "peer", "@", "p1">>,
     <<"http://", "peer", "@", "p2">>>>,
   <<<<"http://", "peer", "@", "p1">>>>}

NextTail ==
  \/ \E c \in ConnIds, a \in Accounts : Initialise(c, a)
  \/ \E c \in ConnIds, s \in Sessions : Ticktock(c, "undefined", s)
  \/ \E a \in SetxArguments : Setx(a.err, a.result)
  \/ \E c \in ConnIds : Connection(c)
  \/ \E c \in ConnIds, members \in TailArrays : TailEvent(c, members)
  \/ \E c \in ConnIds : End(c)

SpecTail == InitBoot /\ [][NextTail]_vars

\* the Sends that an approved message causes, for the user record of
\* connection c and for a user whose id names the attached spark c
FanOutOf(c, named) ==
  LET user == User(query[c].account, query[c].session, c)
  IN FanOut(IF named THEN [user EXCEPT !.id = c] ELSE user, Raw([kind |-> "object"]))

\* C38: the tail list of a connection holds no address twice, so that an
\* approved message causes at most one Send for each address of the tail.
C38_NoDuplicates ==
  \A c \in ConnIds :
    /\ \A i, j \in 1..Len(TailOf(c)) : TailOf(c)[i] = TailOf(c)[j] => i = j
    /\ \A named \in BOOLEAN, g \in Range(TailOf(c)) \ {<<>>} :
         Cardinality({i \in 1..Len(FanOutOf(c, named)) :
            /\ FanOutOf(c, named)[i].uri = Part(Split(g, "@"), 0) \o broadcast
            /\ FanOutOf(c, named)[i].json.id = Part(Split(g, "@"), 1)})
           = IF named /\ c \in connections THEN 1 ELSE 0

\* C38 witness: an open connection that got the address of p1 at its
\* bootstrap has received tail events that repeat it and that repeat p2.
C38_Witness ==
  \E c \in ConnIds :
    /\ pc[c] = "open"
    /\ sockettail[c] = {<<"http://", "peer", "@", "p1">>}
    /\ Range(TailOf(c)) = {<<"http://", "peer", "@", "p1">>, <<"http://", "peer", "@", "p2">>}


-----------------------------------------------------------------------------
(* The application configures Primus through the instance, before and      *)
(* after listen.                                                           *)

NextQueue ==
  \/ \E method \in Missing : Proxy(method)
  \/ \E argument \in ListenArguments : Listen(argument)

SpecQueue == InitDir /\ [][NextQueue]_vars

\* where call n of the application is: in the queue, or applied to Primus
QueuedAt(n) == {i \in 1..Len(primus.queue) : primus.queue[i].call = n}
AppliedAt(n) == {i \in 1..Len(primus.applied) : primus.applied[i].call = n}

\* C39: a call of use, library, save or transform made before listen is
\* queued, and listen applies the queued calls to its Primus in their order
\* and empties the queue; a call made after listen is applied at once and
\* not queued; every call is in the queue or was applied, once.
C39_Queue ==
  /\ [][primus'.calls = primus.calls + 1 =>
          IF primus.created = 0
          THEN /\ primus'.applied = primus.applied
               /\ Len(primus'.queue) = Len(primus.queue) + 1
               /\ SubSeq(primus'.queue, 1, Len(primus.queue)) = primus.queue
               /\ primus'.queue[Len(primus'.queue)].call = primus'.calls
          ELSE /\ primus'.queue = primus.queue
               /\ Len(primus'.applied) = Len(primus.applied) + 1
               /\ SubSeq(primus'.applied, 1, Len(primus.applied)) = primus.applied
               /\ primus'.applied[Len(primus'.applied)].call = primus'.calls
               /\ primus'.applied[Len(primus'.applied)].instance = primus.created]_vars
  /\ [][primus'.created = primus.created + 1 =>
          LET new == SubSeq(primus'.applied, Len(primus.applied) + 1, Len(primus'.applied))
              ours == SelectSeq(new, LAMBDA a : a.call > 0)
          IN /\ SubSeq(primus'.applied, 1, Len(primus.applied)) = primus.applied
             /\ Len(ours) = Len(primus.queue)
             /\ \A i \in 1..Len(ours) :
                  /\ ours[i].call = primus.queue[i].call
                  /\ ours[i].method = primus.queue[i].method
                  /\ ours[i].instance = primus'.created
             /\ primus'.queue = <<>>]_vars
  /\ [](/\ primus.created > 0 => primus.queue = <<>>
        /\ \A n \in 1..primus.calls :
             Cardinality(QueuedAt(n)) + Cardinality(AppliedAt(n)) = 1)

\* C39 witness: two calls were queued and applied by listen in their order,
\* a third was made after listen and applied by the proxy itself.
C39_Witness ==
  /\ primus.created = 1 /\ primus.calls = 3 /\ primus.queue = <<>>
  /\ \E i, j, k \in 1..Len(primus.applied) :
       /\ i < j /\ j < k
       /\ primus.applied[i].call = 1 /\ primus.applied[i].by = "listen"
       /\ primus.applied[j].call = 2 /\ primus.applied[j].by = "listen"
       /\ primus.applied[k].call = 3 /\ primus.applied[k].by = "proxy"

====
